---- MODULE Spec2Model ----
(***************************************************************************)
(* A model of dozor: the command policy (validation.py), the transport's   *)
(* execute (transport.py), the log analyzer, the diagnostic report and the *)
(* security sub-checks.  Text is a sequence of one-character strings, and  *)
(* the regular expressions of the source are matched by a small matcher    *)
(* (Ends) over expression trees, so that a pattern is a value of the model *)
(* and a match is computed, not assumed.                                   *)
(***************************************************************************)
EXTENDS Integers, Sequences, FiniteSets, TLC

(***************************************************************************)
(* Characters and Python's re: \s, \d, \w, re.IGNORECASE, ^, $, \b.        *)
(***************************************************************************)
LowerCh == {"a","b","c","d","e","f","g","h","i","j","k","l","m","n","o","p","q","r","s","t","u","v","w","x","y","z"}
UpperCh == {"A","B","C","D","E","F","G","H","I","J","K","L","M","N","O","P","Q","R","S","T","U","V","W","X","Y","Z"}
DigitCh == {"0","1","2","3","4","5","6","7","8","9"}
SpaceCh == {" ", "\t", "\n"}
\* The backtick, which a TLA+ string cannot hold, is the character BQ.
BQ == "backtick"
WordCh == LowerCh \cup UpperCh \cup DigitCh \cup {"_"}
AlnumCh == LowerCh \cup UpperCh \cup DigitCh
UpperSeq == <<"A","B","C","D","E","F","G","H","I","J","K","L","M","N","O","P","Q","R","S","T","U","V","W","X","Y","Z">>
LowerSeq == <<"a","b","c","d","e","f","g","h","i","j","k","l","m","n","o","p","q","r","s","t","u","v","w","x","y","z">>
ToLower == [c \in UpperCh |-> LowerSeq[CHOOSE i \in 1..Len(UpperSeq) : UpperSeq[i] = c]]
ToUpper == [c \in LowerCh |-> UpperSeq[CHOOSE i \in 1..Len(LowerSeq) : LowerSeq[i] = c]]
lower(c) == IF c \in UpperCh THEN ToLower[c] ELSE c
BothCases(S) == S \cup {ToLower[c] : c \in S \cap UpperCh} \cup {ToUpper[c] : c \in S \cap LowerCh}

\* str.lower() and str.strip() of a text.
str_lower(s) == [i \in 1..Len(s) |-> lower(s[i])]
RECURSIVE lstrip(_)
lstrip(s) == IF s # <<>> /\ Head(s) \in SpaceCh THEN lstrip(Tail(s)) ELSE s
RECURSIVE rstrip(_)
rstrip(s) == IF s # <<>> /\ s[Len(s)] \in SpaceCh THEN rstrip(SubSeq(s, 1, Len(s) - 1)) ELSE s
strip(s) == rstrip(lstrip(s))

\* Constructors of expression trees.
Lit(w) == <<"lit", w>>
Cls(S) == <<"cls", S>>
NotCls(S) == <<"ncls", S>>
AnyCh == <<"ncls", {"\n"}>>
Cat(rs) == <<"cat", rs>>
Alt(rs) == <<"alt", rs>>
Star(r) == <<"star", r>>
Plus(r) == <<"cat", <<r, <<"star", r>> >> >>
Opt(r) == <<"alt", << r, <<"cat", << >> >> >> >>
Bol == <<"bol">>
Eol == <<"eol">>
WordB == <<"wb">>
Sp == Cls(SpaceCh)
SpP == Plus(Sp)
SpS == Star(Sp)
Dig == Cls(DigitCh)

LitAt(w, s, i, ic) ==
    /\ i + Len(w) <= Len(s)
    /\ \A k \in 1..Len(w) :
          IF ic THEN lower(s[i + k]) = lower(w[k]) ELSE s[i + k] = w[k]

IsWordAt(s, i) == i >= 1 /\ i <= Len(s) /\ s[i] \in WordCh

\* Ends(re, s, I, ic): the positions where a match of re that starts at a
\* position of I can end (a position is the number of characters before it).
RECURSIVE Ends(_, _, _, _)
RECURSIVE EndsCat(_, _, _, _, _)
RECURSIVE EndsStar(_, _, _, _)
Ends(re, s, I, ic) ==
    IF I = {} THEN {}
    ELSE CASE re[1] = "lit"  -> {i + Len(re[2]) : i \in {j \in I : LitAt(re[2], s, j, ic)}}
           [] re[1] = "cls"  -> {i + 1 : i \in {j \in I : j < Len(s) /\
                                    s[j + 1] \in (IF ic THEN BothCases(re[2]) ELSE re[2])}}
           [] re[1] = "ncls" -> {i + 1 : i \in {j \in I : j < Len(s) /\
                                    s[j + 1] \notin (IF ic THEN BothCases(re[2]) ELSE re[2])}}
           [] re[1] = "cat"  -> EndsCat(re[2], 1, s, I, ic)
           [] re[1] = "alt"  -> UNION {Ends(re[2][k], s, I, ic) : k \in 1..Len(re[2])}
           [] re[1] = "star" -> EndsStar(re[2], s, I, ic)
           [] re[1] = "bol"  -> I \cap {0}
           [] re[1] = "eol"  -> {i \in I : i = Len(s) \/ (i = Len(s) - 1 /\ s[Len(s)] = "\n")}
           [] re[1] = "wb"   -> {i \in I : IsWordAt(s, i) # IsWordAt(s, i + 1)}
EndsCat(rs, k, s, I, ic) ==
    IF k > Len(rs) THEN I ELSE EndsCat(rs, k + 1, s, Ends(rs[k], s, I, ic), ic)
EndsStar(r, s, I, ic) ==
    LET J == I \cup Ends(r, s, I, ic)
    IN IF J = I THEN I ELSE EndsStar(r, s, J, ic)

\* pattern.search(s), pattern.match(s) and the substring test (x in s).
re_search(re, s, ic) == Ends(re, s, 0..Len(s), ic) # {}
re_match(re, s, ic) == Ends(re, s, {0}, ic) # {}
contains(s, w) == \E i \in 0..Len(s) : LitAt(w, s, i, FALSE)

(***************************************************************************)
(* validation.py: the allowlist and the blocklist of server_exec.          *)
(***************************************************************************)
PathCh == AlnumCh \cup {".", "_", "/", "-"}
NameCh == AlnumCh \cup {"_", "-"}
HostCh == AlnumCh \cup {".", "-"}
Quote == Cls({"\"", "'"})
SpOrEnd == Alt(<<Sp, Eol>>)

ALLOWED_COMMANDS == <<
    \* ^docker\s+(ps|logs|inspect|stats|top|images|info|version)(\s|$)
    Cat(<<Bol, Lit(<<"d","o","c","k","e","r">>), SpP,
          Alt(<<Lit(<<"p","s">>), Lit(<<"l","o","g","s">>), Lit(<<"i","n","s","p","e","c","t">>), Lit(<<"s","t","a","t","s">>), Lit(<<"t","o","p">>),
                Lit(<<"i","m","a","g","e","s">>), Lit(<<"i","n","f","o">>), Lit(<<"v","e","r","s","i","o","n">>)>>), SpOrEnd>>),
    \* ^docker\s+compose\s+(ps|logs|config|images|top|version)(\s|$)
    Cat(<<Bol, Lit(<<"d","o","c","k","e","r">>), SpP, Lit(<<"c","o","m","p","o","s","e">>), SpP,
          Alt(<<Lit(<<"p","s">>), Lit(<<"l","o","g","s">>), Lit(<<"c","o","n","f","i","g">>), Lit(<<"i","m","a","g","e","s">>), Lit(<<"t","o","p">>),
                Lit(<<"v","e","r","s","i","o","n">>)>>), SpOrEnd>>),
    \* ^(cat|head|tail)\s+/var/log/[a-zA-Z0-9._/-]+$
    Cat(<<Bol, Alt(<<Lit(<<"c","a","t">>), Lit(<<"h","e","a","d">>), Lit(<<"t","a","i","l">>)>>), SpP, Lit(<<"/","v","a","r","/","l","o","g","/">>),
          Plus(Cls(PathCh)), Eol>>),
    \* ^(ls|ll)\s+(-[lah]+\s+)?(/var/log/|~/|/home/)[a-zA-Z0-9._/-]*$
    Cat(<<Bol, Alt(<<Lit(<<"l","s">>), Lit(<<"l","l">>)>>), SpP,
          Opt(Cat(<<Lit(<<"-">>), Plus(Cls({"l", "a", "h"})), SpP>>)),
          Alt(<<Lit(<<"/","v","a","r","/","l","o","g","/">>), Lit(<<"~","/">>), Lit(<<"/","h","o","m","e","/">>)>>), Star(Cls(PathCh)), Eol>>),
    \* ^(df|free|uptime|uname|hostname|whoami|pwd|date)(\s+-[a-z]+)?$
    Cat(<<Bol, Alt(<<Lit(<<"d","f">>), Lit(<<"f","r","e","e">>), Lit(<<"u","p","t","i","m","e">>), Lit(<<"u","n","a","m","e">>),
                     Lit(<<"h","o","s","t","n","a","m","e">>), Lit(<<"w","h","o","a","m","i">>), Lit(<<"p","w","d">>), Lit(<<"d","a","t","e">>)>>),
          Opt(Cat(<<SpP, Lit(<<"-">>), Plus(Cls(LowerCh))>>)), Eol>>),
    \* ^(du)\s+-[sh]+\s+(/var/log/|~/|/tmp/)[a-zA-Z0-9._/-]*$
    Cat(<<Bol, Lit(<<"d","u">>), SpP, Lit(<<"-">>), Plus(Cls({"s", "h"})), SpP,
          Alt(<<Lit(<<"/","v","a","r","/","l","o","g","/">>), Lit(<<"~","/">>), Lit(<<"/","t","m","p","/">>)>>), Star(Cls(PathCh)), Eol>>),
    \* ^(ps)\s+(aux|ef|-ef)$
    Cat(<<Bol, Lit(<<"p","s">>), SpP, Alt(<<Lit(<<"a","u","x">>), Lit(<<"e","f">>), Lit(<<"-","e","f">>)>>), Eol>>),
    \* ^(netstat|ss)\s+-[tlnup]+$
    Cat(<<Bol, Alt(<<Lit(<<"n","e","t","s","t","a","t">>), Lit(<<"s","s">>)>>), SpP, Lit(<<"-">>),
          Plus(Cls({"t", "l", "n", "u", "p"})), Eol>>),
    \* ^lsof\s+-i\s*$
    Cat(<<Bol, Lit(<<"l","s","o","f">>), SpP, Lit(<<"-","i">>), SpS, Eol>>),
    \* ^systemctl\s+(status|is-active|is-enabled)\s+[a-zA-Z0-9_-]+$
    Cat(<<Bol, Lit(<<"s","y","s","t","e","m","c","t","l">>), SpP,
          Alt(<<Lit(<<"s","t","a","t","u","s">>), Lit(<<"i","s","-","a","c","t","i","v","e">>), Lit(<<"i","s","-","e","n","a","b","l","e","d">>)>>), SpP,
          Plus(Cls(NameCh)), Eol>>),
    \* ^systemctl\s+list-units(\s+--type=[a-z]+)?$
    Cat(<<Bol, Lit(<<"s","y","s","t","e","m","c","t","l">>), SpP, Lit(<<"l","i","s","t","-","u","n","i","t","s">>),
          Opt(Cat(<<SpP, Lit(<<"-","-","t","y","p","e","=">>), Plus(Cls(LowerCh))>>)), Eol>>),
    \* ^journalctl\s+(-u\s+[a-zA-Z0-9_-]+|--since\s+"[^"]+"|--no-pager|-n\s+\d+|\s)+$
    Cat(<<Bol, Lit(<<"j","o","u","r","n","a","l","c","t","l">>), SpP,
          Plus(Alt(<<Cat(<<Lit(<<"-","u">>), SpP, Plus(Cls(NameCh))>>),
                     Cat(<<Lit(<<"-","-","s","i","n","c","e">>), SpP, Lit(<<"\"">>), Plus(NotCls({"\""})), Lit(<<"\"">>)>>),
                     Lit(<<"-","-","n","o","-","p","a","g","e","r">>),
                     Cat(<<Lit(<<"-","n">>), SpP, Plus(Dig)>>),
                     Sp>>)), Eol>>),
    \* ^ping\s+-c\s+\d+\s+[a-zA-Z0-9.-]+$
    Cat(<<Bol, Lit(<<"p","i","n","g">>), SpP, Lit(<<"-","c">>), SpP, Plus(Dig), SpP, Plus(Cls(HostCh)), Eol>>),
    \* ^(dig|nslookup|host)\s+[a-zA-Z0-9.-]+$
    Cat(<<Bol, Alt(<<Lit(<<"d","i","g">>), Lit(<<"n","s","l","o","o","k","u","p">>), Lit(<<"h","o","s","t">>)>>), SpP,
          Plus(Cls(HostCh)), Eol>>),
    \* ^cat\s+~/[a-zA-Z0-9_-]+/[a-zA-Z0-9_.-]+\.(yml|yaml|json|conf|env\.example|txt|log)$
    Cat(<<Bol, Lit(<<"c","a","t">>), SpP, Lit(<<"~","/">>), Plus(Cls(NameCh)), Lit(<<"/">>),
          Plus(Cls(NameCh \cup {"."})), Lit(<<".">>),
          Alt(<<Lit(<<"y","m","l">>), Lit(<<"y","a","m","l">>), Lit(<<"j","s","o","n">>), Lit(<<"c","o","n","f">>),
                Lit(<<"e","n","v",".","e","x","a","m","p","l","e">>), Lit(<<"t","x","t">>), Lit(<<"l","o","g">>)>>), Eol>>),
    \* ^cat\s+/var/log/[a-zA-Z0-9._/-]+$
    Cat(<<Bol, Lit(<<"c","a","t">>), SpP, Lit(<<"/","v","a","r","/","l","o","g","/">>), Plus(Cls(PathCh)), Eol>>),
    \* ^grep\s+(-[ivnc]+\s+)?["\'][^"\']+["\']\s+(/var/log/|~/)[a-zA-Z0-9._/-]+$
    Cat(<<Bol, Lit(<<"g","r","e","p">>), SpP,
          Opt(Cat(<<Lit(<<"-">>), Plus(Cls({"i", "v", "n", "c"})), SpP>>)),
          Quote, Plus(NotCls({"\"", "'"})), Quote, SpP,
          Alt(<<Lit(<<"/","v","a","r","/","l","o","g","/">>), Lit(<<"~","/">>)>>), Plus(Cls(PathCh)), Eol>>),
    \* ^find\s+~/[a-zA-Z0-9_/-]*\s+-name\s+["\'][a-zA-Z0-9.*_-]+["\'](\s+-type\s+[fd])?$
    Cat(<<Bol, Lit(<<"f","i","n","d">>), SpP, Lit(<<"~","/">>), Star(Cls(NameCh \cup {"/"})), SpP,
          Lit(<<"-","n","a","m","e">>), SpP, Quote, Plus(Cls(NameCh \cup {".", "*"})), Quote,
          Opt(Cat(<<SpP, Lit(<<"-","t","y","p","e">>), SpP, Cls({"f", "d"})>>)), Eol>>)
>>

ShellVerbs == Alt(<<Lit(<<"b","a","s","h">>), Lit(<<"s","h">>), Lit(<<"z","s","h">>), Lit(<<"p","y","t","h","o","n">>), Lit(<<"p","e","r","l">>)>>)

BLOCKED_PATTERNS == <<
    \* rm\s+(-r|-f|-rf|--recursive|--force)
    Cat(<<Lit(<<"r","m">>), SpP, Alt(<<Lit(<<"-","r">>), Lit(<<"-","f">>), Lit(<<"-","r","f">>),
                                   Lit(<<"-","-","r","e","c","u","r","s","i","v","e">>), Lit(<<"-","-","f","o","r","c","e">>)>>)>>),
    \* >\s*/dev/
    Cat(<<Lit(<<">">>), SpS, Lit(<<"/","d","e","v","/">>)>>),
    \* mkfs
    Lit(<<"m","k","f","s">>),
    \* dd\s+if=
    Cat(<<Lit(<<"d","d">>), SpP, Lit(<<"i","f","=">>)>>),
    \* chmod\s+(-R\s+)?[0-7]{3,4}\s+/
    Cat(<<Lit(<<"c","h","m","o","d">>), SpP, Opt(Cat(<<Lit(<<"-","R">>), SpP>>)),
          Cls({"0","1","2","3","4","5","6","7"}), Cls({"0","1","2","3","4","5","6","7"}),
          Cls({"0","1","2","3","4","5","6","7"}), Opt(Cls({"0","1","2","3","4","5","6","7"})),
          SpP, Lit(<<"/">>)>>),
    \* chown\s+(-R\s+)?
    Cat(<<Lit(<<"c","h","o","w","n">>), SpP, Opt(Cat(<<Lit(<<"-","R">>), SpP>>))>>),
    \* :\(\)\s*\{
    Cat(<<Lit(<<":","(",")">>), SpS, Lit(<<"{">>)>>),
    \* \$\(
    Lit(<<"$","(">>),
    \* \$\{
    Lit(<<"$","{">>),
    \* the backtick
    Lit(<<BQ>>),
    \* \$\w+
    Cat(<<Lit(<<"$">>), Plus(Cls(WordCh))>>),
    \* ;\s*(rm|dd|mkfs|chmod|chown|mv|cp\s+-r|tar|zip|curl|wget|python|perl|ruby|node|bash|sh)
    Cat(<<Lit(<<";">>), SpS,
          Alt(<<Lit(<<"r","m">>), Lit(<<"d","d">>), Lit(<<"m","k","f","s">>), Lit(<<"c","h","m","o","d">>), Lit(<<"c","h","o","w","n">>),
                Lit(<<"m","v">>), Cat(<<Lit(<<"c","p">>), SpP, Lit(<<"-","r">>)>>), Lit(<<"t","a","r">>), Lit(<<"z","i","p">>),
                Lit(<<"c","u","r","l">>), Lit(<<"w","g","e","t">>), Lit(<<"p","y","t","h","o","n">>), Lit(<<"p","e","r","l">>), Lit(<<"r","u","b","y">>),
                Lit(<<"n","o","d","e">>), Lit(<<"b","a","s","h">>), Lit(<<"s","h">>)>>)>>),
    \* \|\s*(rm|dd|mkfs|chmod|chown|bash|sh|zsh|python|perl|ruby|node|xargs)
    Cat(<<Lit(<<"|">>), SpS,
          Alt(<<Lit(<<"r","m">>), Lit(<<"d","d">>), Lit(<<"m","k","f","s">>), Lit(<<"c","h","m","o","d">>), Lit(<<"c","h","o","w","n">>),
                Lit(<<"b","a","s","h">>), Lit(<<"s","h">>), Lit(<<"z","s","h">>), Lit(<<"p","y","t","h","o","n">>), Lit(<<"p","e","r","l">>),
                Lit(<<"r","u","b","y">>), Lit(<<"n","o","d","e">>), Lit(<<"x","a","r","g","s">>)>>)>>),
    \* &&\s*(rm|dd|mkfs|chmod|chown|mv|cp\s+-r)
    Cat(<<Lit(<<"&","&">>), SpS,
          Alt(<<Lit(<<"r","m">>), Lit(<<"d","d">>), Lit(<<"m","k","f","s">>), Lit(<<"c","h","m","o","d">>), Lit(<<"c","h","o","w","n">>),
                Lit(<<"m","v">>), Cat(<<Lit(<<"c","p">>), SpP, Lit(<<"-","r">>)>>)>>)>>),
    \* eval\s   exec\s   source\s
    Cat(<<Lit(<<"e","v","a","l">>), Sp>>),
    Cat(<<Lit(<<"e","x","e","c">>), Sp>>),
    Cat(<<Lit(<<"s","o","u","r","c","e">>), Sp>>),
    \* \.\s+/
    Cat(<<Lit(<<".">>), SpP, Lit(<<"/">>)>>),
    \* >\s*/   >>\s*/   >\s*~/   >>\s*~/
    Cat(<<Lit(<<">">>), SpS, Lit(<<"/">>)>>),
    Cat(<<Lit(<<">",">">>), SpS, Lit(<<"/">>)>>),
    Cat(<<Lit(<<">">>), SpS, Lit(<<"~","/">>)>>),
    Cat(<<Lit(<<">",">">>), SpS, Lit(<<"~","/">>)>>),
    \* curl.*\|\s*(bash|sh|zsh|python|perl)   wget.*\|\s*(bash|sh|zsh|python|perl)
    Cat(<<Lit(<<"c","u","r","l">>), Star(AnyCh), Lit(<<"|">>), SpS, ShellVerbs>>),
    Cat(<<Lit(<<"w","g","e","t">>), Star(AnyCh), Lit(<<"|">>), SpS, ShellVerbs>>),
    \* curl.*-o\s   wget.*-O\s
    Cat(<<Lit(<<"c","u","r","l">>), Star(AnyCh), Lit(<<"-","o">>), Sp>>),
    Cat(<<Lit(<<"w","g","e","t">>), Star(AnyCh), Lit(<<"-","O">>), Sp>>),
    \* \.\.
    Lit(<<".",".">>),
    \* /etc/shadow   /etc/passwd   \.ssh/   \.gnupg/   \.aws/   \.kube/config
    Lit(<<"/","e","t","c","/","s","h","a","d","o","w">>),
    Lit(<<"/","e","t","c","/","p","a","s","s","w","d">>),
    Lit(<<".","s","s","h","/">>),
    Lit(<<".","g","n","u","p","g","/">>),
    Lit(<<".","a","w","s","/">>),
    Lit(<<".","k","u","b","e","/","c","o","n","f","i","g">>),
    \* grep\s+-r   find\s+/   -exec\s   -delete
    Cat(<<Lit(<<"g","r","e","p">>), SpP, Lit(<<"-","r">>)>>),
    Cat(<<Lit(<<"f","i","n","d">>), SpP, Lit(<<"/">>)>>),
    Cat(<<Lit(<<"-","e","x","e","c">>), Sp>>),
    Lit(<<"-","d","e","l","e","t","e">>),
    \* nc\s   ncat\s   socat\s
    Cat(<<Lit(<<"n","c">>), Sp>>),
    Cat(<<Lit(<<"n","c","a","t">>), Sp>>),
    Cat(<<Lit(<<"s","o","c","a","t">>), Sp>>)
>>

REASON_BLOCKED == <<"C","o","m","m","a","n","d"," ","c","o","n","t","a","i","n","s"," ","b","l","o","c","k","e","d"," ","p","a","t","t","e","r","n">>
REASON_ALLOWED == <<"C","o","m","m","a","n","d"," ","m","a","t","c","h","e","s"," ","a","l","l","o","w","e","d"," ","p","a","t","t","e","r","n">>
REASON_NOT_LISTED == <<"C","o","m","m","a","n","d"," ","n","o","t"," ","i","n"," ","a","l","l","o","w","l","i","s","t","."," ","O","n","l","y"," ","r","e","a","d","-","o","n","l","y"," ","d","i","a","g","n","o","s","t","i","c"," ","c","o","m","m","a","n","d","s"," ","a","r","e"," ","p","e","r","m","i","t","t","e","d",".">>

\* The two loops of is_command_allowed: the result of the first pattern that
\* matches, in list order.
RECURSIVE first_blocked(_, _)
first_blocked(c, k) ==
    IF k > Len(BLOCKED_PATTERNS) THEN 0
    ELSE IF re_search(BLOCKED_PATTERNS[k], c, TRUE) THEN k
    ELSE first_blocked(c, k + 1)
RECURSIVE first_allowed(_, _)
first_allowed(c, k) ==
    IF k > Len(ALLOWED_COMMANDS) THEN 0
    ELSE IF re_match(ALLOWED_COMMANDS[k], c, FALSE) THEN k
    ELSE first_allowed(c, k + 1)

\* The same function with the two loops in the other order, and with the
\* fall-through answering yes: what the checks of the policy must tell apart.
is_command_allowed_allow_first(cmd) ==
    LET c == strip(cmd)
    IN IF first_allowed(c, 1) # 0 THEN [allowed |-> TRUE, reason |-> REASON_ALLOWED]
       ELSE IF first_blocked(c, 1) # 0 THEN [allowed |-> FALSE, reason |-> REASON_BLOCKED]
       ELSE [allowed |-> FALSE, reason |-> REASON_NOT_LISTED]
is_command_allowed_default_allow(cmd) ==
    LET c == strip(cmd)
    IN IF first_blocked(c, 1) # 0 THEN [allowed |-> FALSE, reason |-> REASON_BLOCKED]
       ELSE [allowed |-> TRUE, reason |-> REASON_ALLOWED]

is_command_allowed(cmd) ==
    LET c == strip(cmd)
    IN IF first_blocked(c, 1) # 0 THEN [allowed |-> FALSE, reason |-> REASON_BLOCKED]
       ELSE IF first_allowed(c, 1) # 0 THEN [allowed |-> TRUE, reason |-> REASON_ALLOWED]
       ELSE [allowed |-> FALSE, reason |-> REASON_NOT_LISTED]

(***************************************************************************)
(* transport.py: CommandResult and SSHTransport.                           *)
(***************************************************************************)
DigitSeq == <<"0","1","2","3","4","5","6","7","8","9">>
RECURSIVE int_str(_)
int_str(n) == IF n < 10 THEN <<DigitSeq[n + 1]>>
              ELSE int_str(n \div 10) \o <<DigitSeq[(n % 10) + 1]>>

CommandResult(out, err, rc, cmd, ok) ==
    [stdout |-> out, stderr |-> err, return_code |-> rc, command |-> cmd, success |-> ok]

DEFAULT_TIMEOUT == 30
DEFAULT_PORT == 22
LocalHosts == { <<"l","o","c","a","l">>, <<"l","o","c","a","l","h","o","s","t">>, <<"1","2","7",".","0",".","0",".","1">> }
\* SSHTransport.__init__: _is_local.
is_local(config) == config.host \in LocalHosts

_build_ssh_command(config, remote_command) ==
    << <<"s","s","h">>, <<"-","o">>, <<"B","a","t","c","h","M","o","d","e","=","y","e","s">>, <<"-","o">>, <<"S","t","r","i","c","t","H","o","s","t","K","e","y","C","h","e","c","k","i","n","g","=","a","c","c","e","p","t","-","n","e","w">>,
       <<"-","o">>, <<"C","o","n","n","e","c","t","T","i","m","e","o","u","t","=">> \o int_str(config.timeout) >>
    \o (IF config.ssh_key # <<>> THEN << <<"-","i">>, config.ssh_key >> ELSE <<>>)
    \o (IF config.port # DEFAULT_PORT THEN << <<"-","p">>, int_str(config.port) >> ELSE <<>>)
    \o << config.user \o <<"@">> \o config.host, remote_command >>

\* What subprocess.run can do: return a completed process, or raise.
ExceptionKinds == {"TimeoutExpired", "FileNotFoundError", "PermissionError"}

\* The except clauses of execute, in their order; caught is FALSE when no
\* clause takes the exception and it leaves execute.
except_without_generic(kind, msg, command, effective_timeout) ==
    IF kind = "TimeoutExpired"
    THEN [caught |-> TRUE, result |-> CommandResult(<<>>,
            <<"C","o","m","m","a","n","d"," ","t","i","m","e","d"," ","o","u","t"," ","a","f","t","e","r"," ">> \o int_str(effective_timeout) \o <<" ","s","e","c","o","n","d","s">>,
            -1, command, FALSE)]
    ELSE IF kind = "FileNotFoundError"
    THEN [caught |-> TRUE, result |-> CommandResult(<<>>,
            <<"S","S","H"," ","c","l","i","e","n","t"," ","n","o","t"," ","f","o","u","n","d","."," ","P","l","e","a","s","e"," ","i","n","s","t","a","l","l"," ","O","p","e","n","S","S","H",".">>, -1, command, FALSE)]
    ELSE [caught |-> FALSE, result |-> CommandResult(<<>>, msg, -1, command, FALSE)]
except_clauses(kind, msg, command, effective_timeout) ==
    IF kind = "TimeoutExpired"
    THEN [caught |-> TRUE, result |-> CommandResult(<<>>,
            <<"C","o","m","m","a","n","d"," ","t","i","m","e","d"," ","o","u","t"," ","a","f","t","e","r"," ">> \o int_str(effective_timeout) \o <<" ","s","e","c","o","n","d","s">>,
            -1, command, FALSE)]
    ELSE IF kind = "FileNotFoundError"
    THEN [caught |-> TRUE, result |-> CommandResult(<<>>,
            <<"S","S","H"," ","c","l","i","e","n","t"," ","n","o","t"," ","f","o","u","n","d","."," ","P","l","e","a","s","e"," ","i","n","s","t","a","l","l"," ","O","p","e","n","S","S","H",".">>, -1, command, FALSE)]
    ELSE [caught |-> TRUE, result |-> CommandResult(<<>>, msg, -1, command, FALSE)]

\* The guard of the allowlist check in execute.
validation_never(local, skip_validation) == FALSE
must_validate(local, skip_validation) == local /\ ~skip_validation

\* execute with one more attempt after a failure.
execute_retrying(config, command, timeout, skip_validation, out) ==
    LET effective_timeout == IF timeout # 0 THEN timeout ELSE config.timeout
        local == is_local(config)
        verdict == is_command_allowed(command)
        cmd == IF local THEN << <<"b","a","s","h">>, <<"-","c">>, command >>
               ELSE _build_ssh_command(config, command)
        handled == except_clauses(out.kind, out.msg, command, effective_timeout)
    IN IF must_validate(local, skip_validation) /\ ~verdict.allowed
       THEN [returned |-> << CommandResult(<<>>,
                                <<"C","o","m","m","a","n","d"," ","b","l","o","c","k","e","d"," ","b","y"," ","s","e","c","u","r","i","t","y"," ","p","o","l","i","c","y",":"," ">> \o verdict.reason,
                                -1, command, FALSE) >>,
             spawned |-> <<>>, raised |-> FALSE]
       ELSE IF out.kind = "exit"
       THEN [returned |-> << CommandResult(strip(out.stdout), strip(out.stderr), out.rc,
                                           command, out.rc = 0) >>,
             spawned |-> IF out.rc = 0 THEN <<cmd>> ELSE <<cmd, cmd>>, raised |-> FALSE]
       ELSE [returned |-> <<handled.result>>, spawned |-> <<cmd, cmd>>, raised |-> FALSE]
\* execute(command, timeout, skip_validation) on a transport of this config,
\* when subprocess.run does out: the CommandResult returned (returned is <<>>
\* when an exception leaves execute), the argument vectors handed to
\* subprocess.run, and the policy decisions taken.
execute(config, command, timeout, skip_validation, out) ==
    LET effective_timeout == IF timeout # 0 THEN timeout ELSE config.timeout
        local == is_local(config)
        verdict == is_command_allowed(command)
        cmd == IF local THEN << <<"b","a","s","h">>, <<"-","c">>, command >>
               ELSE _build_ssh_command(config, command)
        handled == except_clauses(out.kind, out.msg, command, effective_timeout)
    IN IF must_validate(local, skip_validation) /\ ~verdict.allowed
       THEN [returned |-> << CommandResult(<<>>,
                                <<"C","o","m","m","a","n","d"," ","b","l","o","c","k","e","d"," ","b","y"," ","s","e","c","u","r","i","t","y"," ","p","o","l","i","c","y",":"," ">> \o verdict.reason,
                                -1, command, FALSE) >>,
             spawned |-> <<>>, raised |-> FALSE]
       ELSE IF out.kind = "exit"
       THEN [returned |-> << CommandResult(strip(out.stdout), strip(out.stderr), out.rc,
                                           command, out.rc = 0) >>,
             spawned |-> <<cmd>>, raised |-> FALSE]
       ELSE IF handled.caught
       THEN [returned |-> <<handled.result>>, spawned |-> <<cmd>>, raised |-> FALSE]
       ELSE [returned |-> <<>>, spawned |-> <<cmd>>, raised |-> TRUE]

(***************************************************************************)
(* The inputs: commands, configurations and what a process can do.         *)
(***************************************************************************)
MaxFragments == 2
Fragments == { <<"d","o","c","k","e","r"," ","p","s">>, <<"d","o","c","k","e","r"," ","l","o","g","s"," ","n","c">>, <<"d","f"," ","-","h">>, <<";"," ","r","m"," ","-","r","f"," ","/">>, <<"|"," ","n","c"," ","e","v","i","l",".","c","o","m"," ","4","4","4","4">>,
               <<"$","(","w","h","o","a","m","i",")">>, <<"c","u","s","t","o","m","_","s","c","r","i","p","t",".","s","h">>, <<"s","y","s","t","e","m","c","t","l"," ","s","t","a","t","u","s"," ","n","g","i","n","x">>, <<"-","e","x","e","c">>,
               <<"D","O","C","K","E","R"," ","P","S">> }
Padding == { <<>>, <<" ">>, <<"\n">> }
RECURSIVE Joined(_)
Joined(n) == IF n = 0 THEN {<<>>}
             ELSE IF n = 1 THEN Fragments
             ELSE {a \o <<" ">> \o f : a \in Joined(n - 1), f \in Fragments}
Padded(S) == {l \o c \o r : l \in Padding, r \in Padding, c \in S}
Commands == Padded(UNION {Joined(n) : n \in 0..MaxFragments})
ExecCommands == Padded(Joined(0) \cup Joined(1))

Configs == { [host |-> <<"l","o","c","a","l","h","o","s","t">>, user |-> <<"u","b","u","n","t","u">>, port |-> DEFAULT_PORT,
              ssh_key |-> <<>>, timeout |-> DEFAULT_TIMEOUT],
             [host |-> <<"1","0",".","0",".","0",".","5">>, user |-> <<"u","b","u","n","t","u">>, port |-> DEFAULT_PORT,
              ssh_key |-> <<>>, timeout |-> DEFAULT_TIMEOUT],
             [host |-> <<"p","r","o","d",".","e","x","a","m","p","l","e",".","c","o","m">>, user |-> <<"o","p","s">>, port |-> 2222,
              ssh_key |-> <<"~","/",".","s","s","h","/","i","d","_","e","d","2","5","5","1","9">>, timeout |-> DEFAULT_TIMEOUT] }
Timeouts == {0, 10}
ExitCodes == {0, 1}
StdoutTexts == { <<>>, <<"o","k","\n">>, <<" ","p","a","r","t","i","a","l"," ","o","u","t","p","u","t"," ">> }
StderrTexts == { <<>>, <<"w","a","r","n","i","n","g",":"," ","x","\n">> }
ProcOutcomes ==
    {[kind |-> "exit", rc |-> r, stdout |-> o, stderr |-> e, msg |-> <<>>] :
        r \in ExitCodes, o \in StdoutTexts, e \in StderrTexts}
    \cup {[kind |-> k, rc |-> 0, stdout |-> <<>>, stderr |-> <<>>, msg |-> <<"[","E","r","r","n","o"," ","1","3","]"," ","P","e","r","m","i","s","s","i","o","n"," ","d","e","n","i","e","d">>] :
        k \in ExceptionKinds}


(***************************************************************************)
(* models.py: AlertLevel and LogEntry.                                     *)
(***************************************************************************)
CRITICAL == "critical"
ERROR == "error"
WARNING == "warning"
INFO == "info"
AlertLevel == {CRITICAL, ERROR, WARNING, INFO}

LogEntry(level, service, raw) == [level |-> level, service |-> service, raw |-> raw]

\* x in a Python list.
InSeq(x, xs) == \E i \in 1..Len(xs) : xs[i] = x

(***************************************************************************)
(* log_analyzer.py: the scanner-noise signatures and the error catalog.    *)
(***************************************************************************)
BOT_SCANNER_PATHS == <<
    Lit(<<"/","S","D","K","/","w","e","b","L","a","n","g","u","a","g","e">>),
    Lit(<<"/","s","d","k","/">>),
    Lit(<<"/","w","p","-","a","d","m","i","n">>),
    Lit(<<"/","w","p","-","l","o","g","i","n">>),
    Lit(<<"/","w","p","-","c","o","n","t","e","n","t">>),
    Lit(<<"/","w","p","-","i","n","c","l","u","d","e","s">>),
    Lit(<<"/","x","m","l","r","p","c",".","p","h","p">>),
    Cat(<<Lit(<<".","p","h","p">>), Eol>>),
    Lit(<<"/","p","h","p","m","y","a","d","m","i","n">>),
    Lit(<<"/","p","h","p","M","y","A","d","m","i","n">>),
    Lit(<<"/","p","m","a">>),
    Lit(<<"/",".","e","n","v">>),
    Lit(<<"/",".","g","i","t">>),
    Lit(<<"/","c","o","n","f","i","g",".","j","s","o","n">>),
    Lit(<<"/",".","a","w","s">>),
    Lit(<<"/",".","s","s","h">>),
    Lit(<<"/","a","d","m","i","n">>),
    Lit(<<"/","a","d","m","i","n","i","s","t","r","a","t","o","r">>),
    Lit(<<"/","m","a","n","a","g","e","r">>),
    Lit(<<"/","c","o","n","s","o","l","e">>),
    Cat(<<Lit(<<".","b","a","k">>), Eol>>),
    Cat(<<Lit(<<".","b","a","c","k","u","p">>), Eol>>),
    Cat(<<Lit(<<".","s","q","l">>), Eol>>),
    Cat(<<Lit(<<".","t","a","r",".","g","z">>), Eol>>),
    Cat(<<Lit(<<".","z","i","p">>), Eol>>),
    \* /api/v\d+/swagger
    Cat(<<Lit(<<"/","a","p","i","/","v">>), Plus(Dig), Lit(<<"/","s","w","a","g","g","e","r">>)>>),
    Lit(<<"/","s","w","a","g","g","e","r">>),
    Lit(<<"/","a","c","t","u","a","t","o","r">>),
    Lit(<<"/","m","e","t","r","i","c","s">>),
    Lit(<<"/","d","e","b","u","g">>),
    Lit(<<"/","c","g","i","-","b","i","n">>),
    Lit(<<"/","s","h","e","l","l">>),
    Lit(<<"/","c","m","d">>),
    Lit(<<"/","e","v","a","l">>),
    Lit(<<"/","e","x","e","c">>)
>>

is_bot_scanner_request(log_message) ==
    \E k \in 1..Len(BOT_SCANNER_PATHS) : re_search(BOT_SCANNER_PATHS[k], log_message, TRUE)

ErrorPattern(pattern, level, category, description, services) ==
    [pattern |-> pattern, level |-> level, category |-> category,
     description |-> description, services |-> services]

\* The catalog (suggested_action left out); pattern is the source text of the
\* regular expression, the key of analyze_logs; services = <<>> is
\* services=None (applies to all).
PATTERNS == <<
    ErrorPattern("FATAL:\\s+(?:the database system is|password authentication failed)",
                 CRITICAL, <<"d","a","t","a","b","a","s","e">>, <<"P","o","s","t","g","r","e","S","Q","L"," ","a","u","t","h","e","n","t","i","c","a","t","i","o","n"," ","o","r"," ","s","t","a","r","t","u","p"," ","f","a","i","l","u","r","e">>,
                 <<<<"p","o","s","t","g","r","e","s">>>>),
    ErrorPattern("ERROR:\\s+(?:relation|column|table)\\s+\"[^\"]+\"\\s+(?:does not exist|already exists)",
                 ERROR, <<"d","a","t","a","b","a","s","e">>, <<"D","a","t","a","b","a","s","e"," ","s","c","h","e","m","a"," ","e","r","r","o","r"," ","-"," ","m","i","s","s","i","n","g"," ","o","r"," ","d","u","p","l","i","c","a","t","e"," ","o","b","j","e","c","t">>,
                 <<<<"p","o","s","t","g","r","e","s">>, <<"h","a","s","u","r","a">>>>),
    ErrorPattern("FATAL:\\s+too many connections",
                 CRITICAL, <<"d","a","t","a","b","a","s","e">>, <<"P","o","s","t","g","r","e","S","Q","L"," ","c","o","n","n","e","c","t","i","o","n"," ","p","o","o","l"," ","e","x","h","a","u","s","t","e","d">>,
                 <<<<"p","o","s","t","g","r","e","s">>>>),
    ErrorPattern("collation version mismatch",
                 WARNING, <<"d","a","t","a","b","a","s","e">>, <<"P","o","s","t","g","r","e","S","Q","L"," ","c","o","l","l","a","t","i","o","n"," ","v","e","r","s","i","o","n"," ","m","i","s","m","a","t","c","h">>,
                 <<<<"p","o","s","t","g","r","e","s">>>>),
    ErrorPattern("inconsistent object|metadata is inconsistent",
                 ERROR, <<"g","r","a","p","h","q","l">>, <<"H","a","s","u","r","a"," ","m","e","t","a","d","a","t","a"," ","i","n","c","o","n","s","i","s","t","e","n","c","y">>,
                 <<<<"h","a","s","u","r","a">>>>),
    ErrorPattern("JWT.*(?:expired|invalid|malformed)",
                 ERROR, <<"a","u","t","h">>, <<"J","W","T"," ","a","u","t","h","e","n","t","i","c","a","t","i","o","n"," ","f","a","i","l","u","r","e">>,
                 <<<<"h","a","s","u","r","a">>, <<"s","u","p","a","b","a","s","e","-","a","u","t","h">>>>),
    ErrorPattern("Workflow\\s+(?:execution\\s+)?failed",
                 WARNING, <<"w","o","r","k","f","l","o","w">>, <<"n","8","n"," ","w","o","r","k","f","l","o","w"," ","e","x","e","c","u","t","i","o","n"," ","f","a","i","l","e","d">>,
                 <<<<"n","8","n">>>>),
    ErrorPattern("ECONNREFUSED|Connection refused",
                 ERROR, <<"n","e","t","w","o","r","k">>, <<"C","o","n","n","e","c","t","i","o","n"," ","r","e","f","u","s","e","d"," ","t","o"," ","d","e","p","e","n","d","e","n","t"," ","s","e","r","v","i","c","e">>,
                 <<<<"n","8","n">>>>),
    ErrorPattern("credential.*(?:not found|invalid|missing)",
                 ERROR, <<"c","r","e","d","e","n","t","i","a","l","s">>, <<"n","8","n"," ","c","r","e","d","e","n","t","i","a","l"," ","n","o","t"," ","f","o","u","n","d"," ","o","r"," ","i","n","v","a","l","i","d">>,
                 <<<<"n","8","n">>>>),
    ErrorPattern("GoTrue.*(?:error|failed)",
                 ERROR, <<"a","u","t","h">>, <<"S","u","p","a","b","a","s","e"," ","A","u","t","h"," ","(","G","o","T","r","u","e",")"," ","e","r","r","o","r">>,
                 <<<<"s","u","p","a","b","a","s","e","-","a","u","t","h">>>>),
    ErrorPattern("OAuth.*(?:failed|error)",
                 ERROR, <<"a","u","t","h">>, <<"O","A","u","t","h"," ","a","u","t","h","e","n","t","i","c","a","t","i","o","n"," ","f","a","i","l","u","r","e">>,
                 <<<<"s","u","p","a","b","a","s","e","-","a","u","t","h">>>>),
    ErrorPattern("CUDA.*error|GPU.*(?:not available|out of memory)",
                 ERROR, <<"g","p","u">>, <<"G","P","U","/","C","U","D","A"," ","e","r","r","o","r"," ","i","n"," ","e","m","b","e","d","d","i","n","g"," ","s","e","r","v","i","c","e">>,
                 <<<<"e","m","b","e","d","d","i","n","g","-","s","e","r","v","i","c","e">>>>),
    ErrorPattern("model.*(?:not found|failed to load)",
                 CRITICAL, <<"m","o","d","e","l">>, <<"M","L"," ","m","o","d","e","l"," ","l","o","a","d","i","n","g"," ","f","a","i","l","u","r","e">>,
                 <<<<"e","m","b","e","d","d","i","n","g","-","s","e","r","v","i","c","e">>>>),
    ErrorPattern("OOM|Out of memory|Cannot allocate memory",
                 CRITICAL, <<"r","e","s","o","u","r","c","e","s">>, <<"O","u","t"," ","o","f"," ","m","e","m","o","r","y"," ","c","o","n","d","i","t","i","o","n">>,
                 <<>>),
    ErrorPattern("disk.*(?:full|space)|No space left on device",
                 CRITICAL, <<"r","e","s","o","u","r","c","e","s">>, <<"D","i","s","k"," ","s","p","a","c","e"," ","e","x","h","a","u","s","t","e","d">>,
                 <<>>),
    ErrorPattern("SIGTERM|SIGKILL|killed",
                 WARNING, <<"p","r","o","c","e","s","s">>, <<"P","r","o","c","e","s","s"," ","w","a","s"," ","t","e","r","m","i","n","a","t","e","d"," ","b","y"," ","s","i","g","n","a","l">>,
                 <<>>),
    ErrorPattern("timeout|timed out|deadline exceeded",
                 WARNING, <<"p","e","r","f","o","r","m","a","n","c","e">>, <<"O","p","e","r","a","t","i","o","n"," ","t","i","m","e","o","u","t">>,
                 <<>>),
    ErrorPattern("rate limit|too many requests|429",
                 WARNING, <<"r","a","t","e","_","l","i","m","i","t">>, <<"R","a","t","e"," ","l","i","m","i","t"," ","e","x","c","e","e","d","e","d">>,
                 <<>>)
>>

\* re.compile(p.pattern, re.IGNORECASE) of each catalog pattern, in order.
re_compile == <<
    Cat(<<Lit(<<"F","A","T","A","L",":">>), SpP,
          Alt(<<Lit(<<"t","h","e"," ","d","a","t","a","b","a","s","e"," ","s","y","s","t","e","m"," ","i","s">>), Lit(<<"p","a","s","s","w","o","r","d"," ","a","u","t","h","e","n","t","i","c","a","t","i","o","n"," ","f","a","i","l","e","d">>)>>)>>),
    Cat(<<Lit(<<"E","R","R","O","R",":">>), SpP, Alt(<<Lit(<<"r","e","l","a","t","i","o","n">>), Lit(<<"c","o","l","u","m","n">>), Lit(<<"t","a","b","l","e">>)>>), SpP,
          Lit(<<"\"">>), Plus(NotCls({"\""})), Lit(<<"\"">>), SpP,
          Alt(<<Lit(<<"d","o","e","s"," ","n","o","t"," ","e","x","i","s","t">>), Lit(<<"a","l","r","e","a","d","y"," ","e","x","i","s","t","s">>)>>)>>),
    Cat(<<Lit(<<"F","A","T","A","L",":">>), SpP, Lit(<<"t","o","o"," ","m","a","n","y"," ","c","o","n","n","e","c","t","i","o","n","s">>)>>),
    Lit(<<"c","o","l","l","a","t","i","o","n"," ","v","e","r","s","i","o","n"," ","m","i","s","m","a","t","c","h">>),
    Alt(<<Lit(<<"i","n","c","o","n","s","i","s","t","e","n","t"," ","o","b","j","e","c","t">>), Lit(<<"m","e","t","a","d","a","t","a"," ","i","s"," ","i","n","c","o","n","s","i","s","t","e","n","t">>)>>),
    Cat(<<Lit(<<"J","W","T">>), Star(AnyCh),
          Alt(<<Lit(<<"e","x","p","i","r","e","d">>), Lit(<<"i","n","v","a","l","i","d">>), Lit(<<"m","a","l","f","o","r","m","e","d">>)>>)>>),
    Cat(<<Lit(<<"W","o","r","k","f","l","o","w">>), SpP, Opt(Cat(<<Lit(<<"e","x","e","c","u","t","i","o","n">>), SpP>>)), Lit(<<"f","a","i","l","e","d">>)>>),
    Alt(<<Lit(<<"E","C","O","N","N","R","E","F","U","S","E","D">>), Lit(<<"C","o","n","n","e","c","t","i","o","n"," ","r","e","f","u","s","e","d">>)>>),
    Cat(<<Lit(<<"c","r","e","d","e","n","t","i","a","l">>), Star(AnyCh),
          Alt(<<Lit(<<"n","o","t"," ","f","o","u","n","d">>), Lit(<<"i","n","v","a","l","i","d">>), Lit(<<"m","i","s","s","i","n","g">>)>>)>>),
    Cat(<<Lit(<<"G","o","T","r","u","e">>), Star(AnyCh), Alt(<<Lit(<<"e","r","r","o","r">>), Lit(<<"f","a","i","l","e","d">>)>>)>>),
    Cat(<<Lit(<<"O","A","u","t","h">>), Star(AnyCh), Alt(<<Lit(<<"f","a","i","l","e","d">>), Lit(<<"e","r","r","o","r">>)>>)>>),
    Alt(<<Cat(<<Lit(<<"C","U","D","A">>), Star(AnyCh), Lit(<<"e","r","r","o","r">>)>>),
          Cat(<<Lit(<<"G","P","U">>), Star(AnyCh),
                Alt(<<Lit(<<"n","o","t"," ","a","v","a","i","l","a","b","l","e">>), Lit(<<"o","u","t"," ","o","f"," ","m","e","m","o","r","y">>)>>)>>)>>),
    Cat(<<Lit(<<"m","o","d","e","l">>), Star(AnyCh), Alt(<<Lit(<<"n","o","t"," ","f","o","u","n","d">>), Lit(<<"f","a","i","l","e","d"," ","t","o"," ","l","o","a","d">>)>>)>>),
    Alt(<<Lit(<<"O","O","M">>), Lit(<<"O","u","t"," ","o","f"," ","m","e","m","o","r","y">>), Lit(<<"C","a","n","n","o","t"," ","a","l","l","o","c","a","t","e"," ","m","e","m","o","r","y">>)>>),
    Alt(<<Cat(<<Lit(<<"d","i","s","k">>), Star(AnyCh), Alt(<<Lit(<<"f","u","l","l">>), Lit(<<"s","p","a","c","e">>)>>)>>),
          Lit(<<"N","o"," ","s","p","a","c","e"," ","l","e","f","t"," ","o","n"," ","d","e","v","i","c","e">>)>>),
    Alt(<<Lit(<<"S","I","G","T","E","R","M">>), Lit(<<"S","I","G","K","I","L","L">>), Lit(<<"k","i","l","l","e","d">>)>>),
    Alt(<<Lit(<<"t","i","m","e","o","u","t">>), Lit(<<"t","i","m","e","d"," ","o","u","t">>), Lit(<<"d","e","a","d","l","i","n","e"," ","e","x","c","e","e","d","e","d">>)>>),
    Alt(<<Lit(<<"r","a","t","e"," ","l","i","m","i","t">>), Lit(<<"t","o","o"," ","m","a","n","y"," ","r","e","q","u","e","s","t","s">>), Lit(<<"4","2","9">>)>>)
>>

\* LogAnalyzer.__init__: the (compiled, pattern) pairs.
_compiled == [k \in 1..Len(PATTERNS) |-> <<re_compile[k], PATTERNS[k]>>]

\* The same without the scanner-noise test.
analyze_entry_unfiltered(entry) ==
    LET hits == SelectSeq(_compiled, LAMBDA cp :
                    /\ ~(cp[2].services # <<>> /\ ~InSeq(entry.service, cp[2].services))
                    /\ re_search(cp[1], entry.raw, TRUE))
    IN [k \in 1..Len(hits) |-> hits[k][2]]
\* The same without the test of the pattern's services.
analyze_entry_unscoped(entry) ==
    IF is_bot_scanner_request(entry.raw) THEN <<>>
    ELSE LET hits == SelectSeq(_compiled, LAMBDA cp : re_search(cp[1], entry.raw, TRUE))
         IN [k \in 1..Len(hits) |-> hits[k][2]]
analyze_entry(entry) ==
    IF is_bot_scanner_request(entry.raw) THEN <<>>
    ELSE LET hits == SelectSeq(_compiled, LAMBDA cp :
                        /\ ~(cp[2].services # <<>> /\ ~InSeq(entry.service, cp[2].services))
                        /\ re_search(cp[1], entry.raw, TRUE))
         IN [k \in 1..Len(hits) |-> hits[k][2]]

(***************************************************************************)
(* collectors/logs.py: parsing the output of docker compose logs.          *)
(***************************************************************************)
LEVEL_PATTERNS == <<
    <<Cat(<<WordB, Alt(<<Lit(<<"E","R","R","O","R">>), Lit(<<"F","A","T","A","L">>), Lit(<<"C","R","I","T","I","C","A","L">>)>>), WordB>>), "ERROR">>,
    <<Cat(<<WordB, Alt(<<Lit(<<"W","A","R","N">>), Lit(<<"W","A","R","N","I","N","G">>)>>), WordB>>), "WARNING">>,
    <<Cat(<<WordB, Lit(<<"I","N","F","O">>), WordB>>), "INFO">>,
    <<Cat(<<WordB, Alt(<<Lit(<<"D","E","B","U","G">>), Lit(<<"T","R","A","C","E">>)>>), WordB>>), "DEBUG">>,
    <<Cat(<<WordB, Lit(<<"E","R","R","O","R",":">>)>>), "ERROR">>,
    <<Cat(<<WordB, Lit(<<"W","A","R","N","I","N","G",":">>)>>), "WARNING">>,
    <<Cat(<<WordB, Lit(<<"L","O","G",":">>)>>), "INFO">>,
    <<Cat(<<Lit(<<"\"","l","e","v","e","l","\"",":">>), SpS, Lit(<<"\"","e","r","r","o","r","\"">>)>>), "ERROR">>,
    <<Cat(<<Lit(<<"\"","l","e","v","e","l","\"",":">>), SpS, Lit(<<"\"","w","a","r","n","\"">>)>>), "WARNING">>,
    <<Cat(<<Lit(<<"\"","l","e","v","e","l","\"",":">>), SpS, Lit(<<"\"","i","n","f","o","\"">>)>>), "INFO">>,
    <<Lit(<<"P","e","r","m","i","s","s","i","o","n"," ","d","e","n","i","e","d">>), "ERROR">>,
    <<Lit(<<"c","a","n","n","o","t"," ","c","r","e","a","t","e">>), "ERROR">>,
    <<Lit(<<"N","o"," ","s","u","c","h"," ","f","i","l","e"," ","o","r"," ","d","i","r","e","c","t","o","r","y">>), "ERROR">>,
    <<Lit(<<"c","o","m","m","a","n","d"," ","n","o","t"," ","f","o","u","n","d">>), "ERROR">>,
    <<Lit(<<"S","e","g","m","e","n","t","a","t","i","o","n"," ","f","a","u","l","t">>), "ERROR">>,
    <<Lit(<<"K","i","l","l","e","d">>), "ERROR">>,
    <<Lit(<<"O","O","M">>), "ERROR">>,
    <<Lit(<<"o","u","t"," ","o","f"," ","m","e","m","o","r","y">>), "ERROR">>
>>

\* ^[\w-]+-\d+\s*\|\s* : the prefix that _strip_compose_prefix removes; the
\* (.*)$ after it takes the rest of the line.
COMPOSE_PREFIX ==
    Cat(<<Bol, Plus(Cls(WordCh \cup {"-"})), Lit(<<"-">>), Plus(Dig), SpS, Lit(<<"|">>), SpS>>)

SetMax(S) == CHOOSE m \in S : \A x \in S : x <= m
SetMin(S) == CHOOSE m \in S : \A x \in S : m <= x

_strip_compose_prefix(line) ==
    LET E == Ends(COMPOSE_PREFIX, line, {0}, FALSE)
    IN IF E # {} THEN SubSeq(line, SetMax(E) + 1, Len(line)) ELSE line

_detect_level(line) ==
    LET found == {k \in 1..Len(LEVEL_PATTERNS) : re_search(LEVEL_PATTERNS[k][1], line, TRUE)}
    IN IF found # {} THEN LEVEL_PATTERNS[SetMin(found)][2] ELSE "INFO"

\* validate_service_name (validation.py), which get_logs calls first.
SERVICE_NAME == Cat(<<Bol, Cls(LowerCh \cup UpperCh), Star(Cls(NameCh)), Eol>>)
validate_service_name(name) ==
    IF name = <<>> THEN [valid |-> FALSE, reason |-> <<"S","e","r","v","i","c","e"," ","n","a","m","e"," ","c","a","n","n","o","t"," ","b","e"," ","e","m","p","t","y">>]
    ELSE IF Len(name) > 63
    THEN [valid |-> FALSE, reason |-> <<"S","e","r","v","i","c","e"," ","n","a","m","e"," ","t","o","o"," ","l","o","n","g"," ","(","m","a","x"," ","6","3"," ","c","h","a","r","a","c","t","e","r","s",")">>]
    ELSE IF ~re_match(SERVICE_NAME, name, FALSE)
    THEN [valid |-> FALSE, reason |-> <<"I","n","v","a","l","i","d"," ","s","e","r","v","i","c","e"," ","n","a","m","e","."," ","M","u","s","t"," ","s","t","a","r","t"," ","w","i","t","h"," ","l","e","t","t","e","r",","," ","c","o","n","t","a","i","n"," ","o","n","l","y"," ","l","e","t","t","e","r","s",","," ","n","u","m","b","e","r","s",","," ","h","y","p","h","e","n","s",","," ","u","n","d","e","r","s","c","o","r","e","s">>]
    ELSE [valid |-> TRUE, reason |-> <<"V","a","l","i","d"," ","s","e","r","v","i","c","e"," ","n","a","m","e">>]

\* str.split('\n') and '\n'.join.
RECURSIVE split_lines(_)
split_lines(s) ==
    LET nl == {i \in 1..Len(s) : s[i] = "\n"}
    IN IF nl = {} THEN <<s>>
       ELSE <<SubSeq(s, 1, SetMin(nl) - 1)>> \o split_lines(SubSeq(s, SetMin(nl) + 1, Len(s)))
RECURSIVE join_lines(_)
join_lines(ls) ==
    IF ls = <<>> THEN <<>>
    ELSE IF Len(ls) = 1 THEN ls[1]
    ELSE ls[1] \o <<"\n">> \o join_lines(Tail(ls))

(***************************************************************************)
(* The log lines of the model and what the parser makes of each.           *)
(***************************************************************************)
LINE_SCANNER == <<"E","R","R","O","R"," ","G","E","T"," ","/","a","d","m","i","n"," ","t","i","m","e","d"," ","o","u","t">>
LINE_OOM == <<"E","R","R","O","R",":"," ","O","u","t"," ","o","f"," ","m","e","m","o","r","y",","," ","k","i","l","l","e","d">>
LINE_DISK == <<"N","o"," ","s","p","a","c","e"," ","l","e","f","t"," ","o","n"," ","d","e","v","i","c","e",","," ","k","i","l","l","e","d">>
LINE_REFUSED == <<"E","R","R","O","R",":"," ","C","o","n","n","e","c","t","i","o","n"," ","r","e","f","u","s","e","d">>
LINE_STARTED == <<"n","8","n","-","1"," ","|"," ","I","N","F","O"," ","s","t","a","r","t","e","d">>
RawLines == {LINE_SCANNER, LINE_OOM, LINE_DISK, LINE_REFUSED, LINE_STARTED}
LogServices == {<<"n","8","n">>, <<"p","o","s","t","g","r","e","s">>}
BadServices == {<<"9","x">>}

\* _detect_level on each line of the model once its compose prefix is off.
detect_level_of == [line \in RawLines |-> _detect_level(_strip_compose_prefix(line))]

RECURSIVE parse_lines(_, _, _)
parse_lines(lines, k, service) ==
    IF k > Len(lines) THEN <<>>
    ELSE IF strip(lines[k]) = <<>> THEN parse_lines(lines, k + 1, service)
    ELSE <<LogEntry(detect_level_of[lines[k]], service, lines[k])>>
            \o parse_lines(lines, k + 1, service)
_parse_logs(raw_logs, service) == parse_lines(split_lines(raw_logs), 1, service)

\* LogCollector.get_logs, given what docker compose logs answered: the
\* entries, or raised for a ValueError.
get_logs(service, result) ==
    IF ~validate_service_name(service).valid THEN [raised |-> TRUE, entries |-> <<>>]
    ELSE IF ~result.success THEN [raised |-> FALSE, entries |-> <<>>]
    ELSE [raised |-> FALSE, entries |-> _parse_logs(result.stdout, service)]

\* The entries of the model, with analyze_entry and is_bot_scanner_request
\* computed once for each.
LogEntries == {LogEntry(detect_level_of[l], s, l) : l \in RawLines, s \in LogServices}
analyze_entry_of == [entry \in LogEntries |-> analyze_entry(entry)]
is_bot_scanner_request_of == [l \in RawLines |-> is_bot_scanner_request(l)]

(***************************************************************************)
(* log_analyzer.py: analyze_logs and get_most_critical.  A Python dict is  *)
(* a sequence of [key, value] in insertion order.                          *)
(***************************************************************************)
dict_has(d, key) == \E i \in 1..Len(d) : d[i].key = key
dict_at(d, key) == d[CHOOSE i \in 1..Len(d) : d[i].key = key].value
dict_get(d, key, default) == IF dict_has(d, key) THEN dict_at(d, key) ELSE default
dict_set(d, key, value) ==
    IF dict_has(d, key)
    THEN [i \in 1..Len(d) |-> IF d[i].key = key THEN [key |-> key, value |-> value] ELSE d[i]]
    ELSE Append(d, [key |-> key, value |-> value])
RECURSIVE dict_sum(_)
dict_sum(d) == IF d = <<>> THEN 0 ELSE Head(d).value + dict_sum(Tail(d))

\* The body of "for pattern in matched", keeping the two most recent samples
\* out of three instead of the first three.
count_pattern_latest(acc, pattern, entry) ==
    LET key == pattern.pattern
        started == IF dict_has(acc.pattern_samples, key) THEN acc.pattern_samples
                   ELSE dict_set(acc.pattern_samples, key, [pattern |-> pattern, samples |-> <<>>])
        data == dict_at(started, key)
        kept == IF Len(data.samples) < 3 THEN data.samples ELSE Tail(data.samples)
    IN [pattern_counts |-> dict_set(acc.pattern_counts, key, dict_get(acc.pattern_counts, key, 0) + 1),
        pattern_samples |-> dict_set(started, key, [data EXCEPT !.samples = Append(kept, entry)]),
        category_counts |-> dict_set(acc.category_counts, pattern.category,
                                     dict_get(acc.category_counts, pattern.category, 0) + 1)]
\* The body of "for pattern in matched" (lines 296-306).
count_pattern(acc, pattern, entry) ==
    LET key == pattern.pattern
        started == IF dict_has(acc.pattern_samples, key) THEN acc.pattern_samples
                   ELSE dict_set(acc.pattern_samples, key, [pattern |-> pattern, samples |-> <<>>])
        data == dict_at(started, key)
    IN [pattern_counts |-> dict_set(acc.pattern_counts, key, dict_get(acc.pattern_counts, key, 0) + 1),
        pattern_samples |-> IF Len(data.samples) < 3
                            THEN dict_set(started, key, [data EXCEPT !.samples = Append(@, entry)])
                            ELSE started,
        category_counts |-> dict_set(acc.category_counts, pattern.category,
                                     dict_get(acc.category_counts, pattern.category, 0) + 1)]

RECURSIVE count_matched(_, _, _, _)
count_matched(acc, matched, k, entry) ==
    IF k > Len(matched) THEN acc
    ELSE count_matched(count_pattern(acc, matched[k], entry), matched, k + 1, entry)

RECURSIVE count_entries(_, _, _)
count_entries(acc, entries, i) ==
    IF i > Len(entries) THEN acc
    ELSE count_entries(count_matched(acc, analyze_entry_of[entries[i]], 1, entries[i]),
                       entries, i + 1)

analysis_of(acc, entries) ==
    [total_entries |-> Len(entries),
     errors_found |-> dict_sum(acc.pattern_counts),
     patterns_matched |-> [k \in 1..Len(acc.pattern_samples) |->
                             [pattern |-> acc.pattern_samples[k].value.pattern,
                              count |-> dict_at(acc.pattern_counts, acc.pattern_samples[k].key),
                              sample_entries |-> acc.pattern_samples[k].value.samples]],
     by_category |-> acc.category_counts]

analyze_logs(entries) ==
    analysis_of(count_entries([pattern_counts |-> <<>>, pattern_samples |-> <<>>,
                               category_counts |-> <<>>], entries, 1), entries)

level_order(level) ==
    CASE level = CRITICAL -> 0
      [] level = ERROR -> 1
      [] level = WARNING -> 2
      [] level = INFO -> 3
      [] OTHER -> 99

\* The sort key without the count.
sort_key_level_only(x) == <<level_order(x.pattern.level), 0>>
sort_key(x) == <<level_order(x.pattern.level), 0 - x.count>>
key_less(a, b) == a[1] < b[1] \/ (a[1] = b[1] /\ a[2] < b[2])

\* sorted(xs, key=...): Python's sort is stable.
sorted_insert(x, ys) ==
    LET n == Cardinality({i \in 1..Len(ys) : ~key_less(sort_key(x), sort_key(ys[i]))})
    IN SubSeq(ys, 1, n) \o <<x>> \o SubSeq(ys, n + 1, Len(ys))
RECURSIVE sorted(_)
sorted(xs) ==
    IF xs = <<>> THEN <<>>
    ELSE sorted_insert(xs[Len(xs)], sorted(SubSeq(xs, 1, Len(xs) - 1)))

\* None is <<>>, a pattern p is <<p>>.
most_critical_of(analysis) ==
    IF analysis.patterns_matched = <<>> THEN <<>>
    ELSE <<sorted(analysis.patterns_matched)[1].pattern>>
get_most_critical(entries) == most_critical_of(analyze_logs(entries))

(***************************************************************************)
(* agent.py: the errors of a service, as _collect_all_data keeps them.     *)
(***************************************************************************)
ERROR_LEVELS == {"ERROR", "CRITICAL", "FATAL"}
_filter_error_logs(logs) ==
    SelectSeq(logs, LAMBDA log : log.level \in ERROR_LEVELS /\ ~is_bot_scanner_request_of[log.raw])

\* xs[-n:]
last_n(xs, n) == IF Len(xs) <= n THEN xs ELSE SubSeq(xs, Len(xs) - n + 1, Len(xs))

\* The log part of the loop body of _collect_all_data (lines 126-133).
collect_errors(logs) ==
    [error_count |-> Len(_filter_error_logs(logs)),
     recent_errors |-> last_n(_filter_error_logs(logs), 10)]

\* The inputs: what docker compose logs answered.
MaxEntries == 4
RECURSIVE LineSeqs(_)
LineSeqs(n) ==
    IF n = 0 THEN {<<>>}
    ELSE LineSeqs(n - 1) \cup {Append(ls, l) : ls \in {x \in LineSeqs(n - 1) : Len(x) = n - 1}, l \in RawLines}
LogResults ==
    {CommandResult(join_lines(ls), <<>>, 0, <<>>, TRUE) : ls \in LineSeqs(MaxEntries)}
    \cup {CommandResult(<<>>, <<"n","o"," ","s","u","c","h"," ","s","e","r","v","i","c","e">>, 1, <<>>, FALSE),
          CommandResult(LINE_OOM, <<>>, 1, <<>>, FALSE)}

(***************************************************************************)
(* collectors/security: the sub-checks of the network and authentication   *)
(* checkers.  A SecurityIssue keeps its level, category, title and         *)
(* evidence; description, remediation and references are fixed texts of    *)
(* the source and are left out.                                            *)
(***************************************************************************)
SecurityIssue(level, category, title, evidence) ==
    [level |-> level, category |-> category, title |-> title, evidence |-> evidence]

INTERNAL_ONLY_PORTS == <<
    [key |-> 5432, value |-> <<"P","o","s","t","g","r","e","S","Q","L">>],
    [key |-> 6379, value |-> <<"R","e","d","i","s">>],
    [key |-> 8080, value |-> <<"H","a","s","u","r","a"," ","G","r","a","p","h","Q","L">>],
    [key |-> 9999, value |-> <<"S","u","p","a","b","a","s","e"," ","A","u","t","h">>],
    [key |-> 3000, value |-> <<"I","n","t","e","r","n","a","l"," ","A","P","I">>],
    [key |-> 27017, value |-> <<"M","o","n","g","o","D","B">>],
    [key |-> 9200, value |-> <<"E","l","a","s","t","i","c","s","e","a","r","c","h">>],
    [key |-> 2379, value |-> <<"e","t","c","d">>],
    [key |-> 18789, value |-> <<"M","o","l","t","b","o","t"," ","G","a","t","e","w","a","y">>]
>>
GATEWAY_PORT == 18789
REQUIRED_AUTH_VARS == << <<"A","U","T","H","_","E","N","A","B","L","E","D">>, <<"M","A","S","T","E","R","_","K","E","Y","_","H","A","S","H">>, <<"I","N","T","E","R","N","A","L","_","S","E","R","V","I","C","E","_","S","E","C","R","E","T">> >>

\* The commands the sub-checks hand to transport.execute.
UFW_COMMAND == <<"s","u","d","o"," ","u","f","w"," ","s","t","a","t","u","s"," ","v","e","r","b","o","s","e"," ","2",">","/","d","e","v","/","n","u","l","l"," ","|","|"," ","e","c","h","o"," ","'","U","F","W","_","N","O","T","_","I","N","S","T","A","L","L","E","D","'">>
PORTS_COMMAND == <<"s","s"," ","-","t","l","n","p"," ","2",">","/","d","e","v","/","n","u","l","l"," ","|"," ","g","r","e","p"," ","L","I","S","T","E","N"," ","|","|"," ","n","e","t","s","t","a","t"," ","-","t","l","n","p"," ","2",">","/","d","e","v","/","n","u","l","l"," ","|"," ","g","r","e","p"," ","L","I","S","T","E","N">>
ENV_COMMAND == <<"c","a","t"," ",".","e","n","v"," ","2",">","/","d","e","v","/","n","u","l","l">>

\* int(text) of a run of digits.
RECURSIVE str_int(_)
str_int(ds) ==
    IF ds = <<>> THEN 0
    ELSE str_int(SubSeq(ds, 1, Len(ds) - 1)) * 10
            + (CHOOSE k \in 0..9 : DigitSeq[k + 1] = ds[Len(ds)])

\* ^(\d+)(?:/tcp|/udp)?\s+ALLOW and its group 1.
UFW_ALLOW ==
    Cat(<<Bol, Plus(Dig), Opt(Alt(<<Lit(<<"/","t","c","p">>), Lit(<<"/","u","d","p">>)>>)), SpP, Lit(<<"A","L","L","O","W">>)>>)
allowed_port(line) == str_int(SubSeq(line, 1, SetMax(Ends(Plus(Dig), line, {0}, FALSE))))

\* The status dict _get_ufw_status builds from the stdout of UFW_COMMAND.
ufw_status_of(stdout) ==
    LET installed == ~contains(stdout, <<"U","F","W","_","N","O","T","_","I","N","S","T","A","L","L","E","D">>)
        lines == split_lines(stdout)
    IN [installed |-> installed,
        active |-> installed /\ contains(str_lower(stdout), <<"s","t","a","t","u","s",":"," ","a","c","t","i","v","e">>),
        allowed_ports |->
            IF installed
            THEN {allowed_port(lines[k]) : k \in {j \in 1..Len(lines) : re_search(UFW_ALLOW, lines[j], FALSE)}}
            ELSE {},
        raw_output |-> strip(stdout)]

\* One transport.execute of a sub-check: what it returned, or that it raised.
run(transport, command, out) == execute(transport, command, 0, FALSE, out)

\* NetworkSecurityChecker._get_ufw_status with the memo _ufw_status (<<>> is
\* None) when the process of UFW_COMMAND does out: the memo afterwards
\* (the status returned), and the results of the commands that were run.
_get_ufw_status(memo, transport, out) ==
    IF memo # <<>> THEN [raised |-> FALSE, memo |-> memo, ran |-> <<>>]
    ELSE LET r == run(transport, UFW_COMMAND, out)
         IN IF r.raised THEN [raised |-> TRUE, memo |-> memo, ran |-> <<>>]
            ELSE [raised |-> FALSE,
                  memo |-> <<ufw_status_of(r.returned[1].stdout)>>,
                  ran |-> r.returned]

\* The findings of check_firewall for a status.
firewall_issues(ufw_status) ==
    IF ~ufw_status.installed
    THEN <<SecurityIssue(WARNING, "firewall", <<"F","i","r","e","w","a","l","l"," ","(","U","F","W",")"," ","i","s"," ","n","o","t"," ","i","n","s","t","a","l","l","e","d">>,
                         ufw_status.raw_output)>>
    ELSE IF ~ufw_status.active
    THEN <<SecurityIssue(WARNING, "firewall", <<"F","i","r","e","w","a","l","l"," ","(","U","F","W",")"," ","i","s"," ","n","o","t"," ","a","c","t","i","v","e">>,
                         ufw_status.raw_output)>>
    ELSE <<>>
check_firewall(memo, transport, out) ==
    LET got == _get_ufw_status(memo, transport, out)
    IN [raised |-> got.raised, memo |-> got.memo, ran |-> got.ran,
        issues |-> IF got.raised THEN <<>> ELSE firewall_issues(got.memo[1])]

\* (?:0\.0\.0\.0|::):(\d+) searched in a line: <<>> when it is not found,
\* else <<int(group 1)>> of the leftmost match.
PORT_BIND == Cat(<<Alt(<<Lit(<<"0",".","0",".","0",".","0">>), Lit(<<":",":">>)>>), Lit(<<":">>)>>)
exposed_port(line) ==
    LET whole == Cat(<<PORT_BIND, Plus(Dig)>>)
        starts == {i \in 0..Len(line) : Ends(whole, line, {i}, FALSE) # {}}
    IN IF starts = {} THEN <<>>
       ELSE <<str_int(SubSeq(line,
                             SetMax(Ends(PORT_BIND, line, {SetMin(starts)}, FALSE)) + 1,
                             SetMax(Ends(whole, line, {SetMin(starts)}, FALSE))))>>

\* The body of "for line in result.stdout.split('\n')" of check_exposed_ports.
RECURSIVE exposed_issues(_, _, _)
exposed_issues(lines, k, ufw_status) ==
    IF k > Len(lines) THEN <<>>
    ELSE LET line == lines[k]
             port == exposed_port(line)
             rest == exposed_issues(lines, k + 1, ufw_status)
         IN IF strip(line) = <<>> THEN rest
            ELSE IF port = <<>> THEN rest
            ELSE IF ufw_status.active /\ port[1] \notin ufw_status.allowed_ports THEN rest
            ELSE IF ~dict_has(INTERNAL_ONLY_PORTS, port[1]) THEN rest
            ELSE IF port[1] = GATEWAY_PORT THEN rest
            ELSE <<SecurityIssue(CRITICAL, "network",
                                 dict_at(INTERNAL_ONLY_PORTS, port[1]) \o <<" ","e","x","p","o","s","e","d"," ","o","n"," ","p","u","b","l","i","c"," ","i","n","t","e","r","f","a","c","e">>,
                                 strip(line))>> \o rest
check_exposed_ports(memo, transport, out_ufw, out_ports) ==
    LET got == _get_ufw_status(memo, transport, out_ufw)
        r == run(transport, PORTS_COMMAND, out_ports)
    IN IF got.raised THEN [raised |-> TRUE, memo |-> got.memo, ran |-> got.ran, issues |-> <<>>]
       ELSE IF r.raised THEN [raised |-> TRUE, memo |-> got.memo, ran |-> got.ran, issues |-> <<>>]
       ELSE [raised |-> FALSE, memo |-> got.memo, ran |-> got.ran \o r.returned,
             issues |-> IF ~r.returned[1].success THEN <<>>
                        ELSE exposed_issues(split_lines(r.returned[1].stdout), 1, got.memo[1])]

\* str.strip('"\'') and line.partition('=').
RECURSIVE strip_quotes(_)
strip_quotes(s) ==
    IF s # <<>> /\ Head(s) \in {"\"", "'"} THEN strip_quotes(Tail(s))
    ELSE IF s # <<>> /\ s[Len(s)] \in {"\"", "'"} THEN strip_quotes(SubSeq(s, 1, Len(s) - 1))
    ELSE s
partition(line) ==
    LET at == SetMin({i \in 1..Len(line) : line[i] = "="})
    IN [key |-> SubSeq(line, 1, at - 1), value |-> SubSeq(line, at + 1, Len(line))]

\* AuthenticationChecker._parse_env_content.
RECURSIVE parse_env_lines(_, _, _)
parse_env_lines(lines, k, env_vars) ==
    IF k > Len(lines) THEN env_vars
    ELSE IF contains(lines[k], <<"=">>)
            /\ ~(strip(lines[k]) # <<>> /\ Head(strip(lines[k])) = "#")
    THEN parse_env_lines(lines, k + 1,
            dict_set(env_vars, strip(partition(lines[k]).key),
                     strip_quotes(strip(partition(lines[k]).value))))
    ELSE parse_env_lines(lines, k + 1, env_vars)
_parse_env_content(env_content) == parse_env_lines(split_lines(env_content), 1, <<>>)

_check_auth_enabled(env_vars) ==
    LET auth_enabled == str_lower(dict_get(env_vars, <<"A","U","T","H","_","E","N","A","B","L","E","D">>, <<>>))
    IN IF auth_enabled # <<"t","r","u","e">>
       THEN <<SecurityIssue(CRITICAL, "authentication", <<"A","P","I"," ","a","u","t","h","e","n","t","i","c","a","t","i","o","n"," ","i","s"," ","d","i","s","a","b","l","e","d">>,
                 <<"A","U","T","H","_","E","N","A","B","L","E","D","=">> \o (IF auth_enabled # <<>> THEN auth_enabled ELSE <<"n","o","t"," ","s","e","t">>))>>
       ELSE <<>>

\* value[:20] + '...' if len(value) > 20 else value
evidence_value(value) == IF Len(value) > 20 THEN SubSeq(value, 1, 20) \o <<".",".",".">> ELSE value
RECURSIVE required_secret_issues(_, _)
required_secret_issues(k, env_vars) ==
    IF k > Len(REQUIRED_AUTH_VARS) THEN <<>>
    ELSE LET var == REQUIRED_AUTH_VARS[k]
             value == dict_get(env_vars, var, <<>>)
             rest == required_secret_issues(k + 1, env_vars)
         IN IF value = <<>>
            THEN <<SecurityIssue(WARNING, "authentication",
                      <<"R","e","q","u","i","r","e","d"," ","s","e","c","r","e","t"," ">> \o var \o <<" ","n","o","t"," ","c","o","n","f","i","g","u","r","e","d">>, <<>>)>> \o rest
            ELSE IF contains(value, <<"C","H","A","N","G","E","_","M","E">>) \/ contains(str_lower(value), <<"p","l","a","c","e","h","o","l","d","e","r">>)
            THEN <<SecurityIssue(CRITICAL, "authentication",
                      <<"P","l","a","c","e","h","o","l","d","e","r"," ","v","a","l","u","e"," ","i","n"," ">> \o var,
                      var \o <<"=">> \o evidence_value(value))>> \o rest
            ELSE rest
_check_required_secrets(env_vars) == required_secret_issues(1, env_vars)

check_auth_configuration(transport, out) ==
    LET env_result == run(transport, ENV_COMMAND, out)
        env_content == IF env_result.returned[1].success THEN env_result.returned[1].stdout ELSE <<>>
        env_vars == _parse_env_content(env_content)
    IN IF env_result.raised THEN [raised |-> TRUE, ran |-> <<>>, issues |-> <<>>]
       ELSE [raised |-> FALSE, ran |-> env_result.returned,
             issues |-> _check_auth_enabled(env_vars) \o _check_required_secrets(env_vars)]

\* The inputs: what the process of each command can do on the server.
UfwOutputs ==
    { <<"S","t","a","t","u","s",":"," ","a","c","t","i","v","e","\n","\n","T","o"," ","A","c","t","i","o","n"," ","F","r","o","m","\n","2","2","/","t","c","p"," ","A","L","L","O","W"," ","A","n","y","w","h","e","r","e","\n","5","4","3","2"," ","A","L","L","O","W"," ","A","n","y","w","h","e","r","e">>,
      <<"S","t","a","t","u","s",":"," ","a","c","t","i","v","e","\n","2","2","/","t","c","p"," ","A","L","L","O","W"," ","A","n","y","w","h","e","r","e">>,
      <<"S","t","a","t","u","s",":"," ","i","n","a","c","t","i","v","e">>,
      <<"U","F","W","_","N","O","T","_","I","N","S","T","A","L","L","E","D">> }
PortsOutputs ==
    { <<"L","I","S","T","E","N"," ","0"," ","1","2","8"," ","0",".","0",".","0",".","0",":","5","4","3","2"," ","0",".","0",".","0",".","0",":","*","\n","L","I","S","T","E","N"," ","0"," ","1","2","8"," ","1","2","7",".","0",".","0",".","1",":","6","3","7","9"," ","0",".","0",".","0",".","0",":","*">>,
      <<"t","c","p","6"," ","0"," ","0"," ",":",":",":","6","3","7","9"," ",":",":",":","*"," ","L","I","S","T","E","N","\n","\n","t","c","p"," ","0"," ","0"," ","0",".","0",".","0",".","0",":","1","8","7","8","9"," ","0",".","0",".","0",".","0",":","*"," ","L","I","S","T","E","N">>,
      <<"L","I","S","T","E","N"," ","0"," ","1","2","8"," ","0",".","0",".","0",".","0",":","2","2"," ","0",".","0",".","0",".","0",":","*">> }
EnvOutputs ==
    { <<"A","U","T","H","_","E","N","A","B","L","E","D","=","t","r","u","e","\n","M","A","S","T","E","R","_","K","E","Y","_","H","A","S","H","=","\"","a","b","c","1","2","3","\"","\n","I","N","T","E","R","N","A","L","_","S","E","R","V","I","C","E","_","S","E","C","R","E","T","=","s","3","c","r","e","t">>,
      <<"#"," ","A","U","T","H","_","E","N","A","B","L","E","D","=","t","r","u","e","\n","A","U","T","H","_","E","N","A","B","L","E","D"," ","="," ","F","a","l","s","e","\n","M","A","S","T","E","R","_","K","E","Y","_","H","A","S","H","=","C","H","A","N","G","E","_","M","E","_","0","1","2","3","4","5","6","7","8","9","a","b","c","d","e","f">>,
      <<"A","U","T","H","_","E","N","A","B","L","E","D","=","T","R","U","E","\n","I","N","T","E","R","N","A","L","_","S","E","R","V","I","C","E","_","S","E","C","R","E","T","=","'","m","y","-","p","l","a","c","e","h","o","l","d","e","r","'">> }
Ran(texts) ==
    {[kind |-> "exit", rc |-> 0, stdout |-> t, stderr |-> <<>>, msg |-> <<>>] : t \in texts}
    \cup {[kind |-> "exit", rc |-> 255, stdout |-> <<>>,
           stderr |-> <<"s","s","h",":"," ","c","o","n","n","e","c","t"," ","t","o"," ","h","o","s","t"," ","1","0",".","0",".","0",".","5"," ","p","o","r","t"," ","2","2",":"," ","C","o","n","n","e","c","t","i","o","n"," ","r","e","f","u","s","e","d">>, msg |-> <<>>],
          [kind |-> "TimeoutExpired", rc |-> 0, stdout |-> <<>>, stderr |-> <<>>, msg |-> <<>>]}

(***************************************************************************)
(* models.py: ServiceStatus, Alert and DiagnosticReport.  Percentages and  *)
(* megabytes are whole numbers; an Optional number is <<>> or <<n>>.       *)
(***************************************************************************)
ContainerState == {"running", "exited", "restarting", "paused", "dead", "unknown"}
ServiceStatus(name, state, restart_count, cpu_percent, memory_mb, memory_limit_mb, error_count, recent_errors) ==
    [name |-> name, state |-> state, restart_count |-> restart_count,
     cpu_percent |-> cpu_percent, memory_mb |-> memory_mb,
     memory_limit_mb |-> memory_limit_mb,
     error_count |-> error_count, recent_errors |-> recent_errors]
alert_level(s) ==
    IF s.state # "running" THEN CRITICAL
    ELSE IF s.restart_count > 0 \/ s.error_count > 5 THEN ERROR
    ELSE IF s.error_count > 0 THEN WARNING
    ELSE INFO

\* An Alert keeps its level, service and title; the title of a resource
\* alert stops before the formatted percentage.
Alert(level, service, title) == [level |-> level, service |-> service, title |-> title]

\* DiagnosticReport._calculate_overall_health with the alerts left out of it.
_calculate_overall_health_services_only(services, alerts) ==
    IF services = <<>> /\ alerts = <<>> THEN "unknown"
    ELSE IF \E i \in 1..Len(services) : alert_level(services[i]) = CRITICAL THEN "critical"
    ELSE IF \E i \in 1..Len(services) : alert_level(services[i]) = ERROR THEN "degraded"
    ELSE IF \E i \in 1..Len(services) : alert_level(services[i]) = WARNING THEN "warning"
    ELSE "healthy"
_calculate_overall_health(services, alerts) ==
    LET service_critical == \E i \in 1..Len(services) : alert_level(services[i]) = CRITICAL
        service_errors == \E i \in 1..Len(services) : alert_level(services[i]) = ERROR
        service_warnings == \E i \in 1..Len(services) : alert_level(services[i]) = WARNING
        alert_critical == \E i \in 1..Len(alerts) : alerts[i].level = CRITICAL
        alert_errors == \E i \in 1..Len(alerts) : alerts[i].level = ERROR
        alert_warnings == \E i \in 1..Len(alerts) : alerts[i].level = WARNING
    IN IF services = <<>> /\ alerts = <<>> THEN "unknown"
       ELSE IF service_critical \/ alert_critical THEN "critical"
       ELSE IF service_errors \/ alert_errors THEN "degraded"
       ELSE IF service_warnings \/ alert_warnings THEN "warning"
       ELSE "healthy"

\* DiagnosticReport(server, services, alerts): __post_init__ computes the
\* health, whatever overall_health was passed.
DiagnosticReport(server, services, alerts) ==
    [server |-> server, services |-> services, alerts |-> alerts,
     overall_health |-> _calculate_overall_health(services, alerts)]

\* report._recalculate_health(), and the same call doing nothing.
_recalculate_health_skipped(report) == report
_recalculate_health(report) ==
    [report EXCEPT !.overall_health = _calculate_overall_health(report.services, report.alerts)]

(***************************************************************************)
(* alert_generator.py with the default AlertConfig.                        *)
(***************************************************************************)
error_threshold == 5
restart_threshold == 1
memory_threshold_percent == 90
cpu_threshold_percent == 90

_check_container_state(service) ==
    IF service.state = "exited"
    THEN <<Alert(CRITICAL, service.name, <<"C","o","n","t","a","i","n","e","r"," ">> \o service.name \o <<" ","h","a","s"," ","e","x","i","t","e","d">>)>>
    ELSE IF service.state = "restarting"
    THEN <<Alert(CRITICAL, service.name, <<"C","o","n","t","a","i","n","e","r"," ">> \o service.name \o <<" ","i","s"," ","i","n"," ","r","e","s","t","a","r","t"," ","l","o","o","p">>)>>
    ELSE IF service.state = "dead"
    THEN <<Alert(CRITICAL, service.name, <<"C","o","n","t","a","i","n","e","r"," ">> \o service.name \o <<" ","i","s"," ","d","e","a","d">>)>>
    ELSE <<>>

_check_restarts(service) ==
    IF service.restart_count >= restart_threshold
    THEN <<Alert(IF service.restart_count > 3 THEN ERROR ELSE WARNING, service.name,
                 <<"C","o","n","t","a","i","n","e","r"," ">> \o service.name \o <<" ","h","a","s"," ","r","e","s","t","a","r","t","e","d"," ">>
                    \o int_str(service.restart_count) \o <<" ","t","i","m","e","s">>)>>
    ELSE <<>>

\* A number that is neither None nor zero.
truthy(x) == x # <<>> /\ x[1] # 0
\* usage_percent = memory_mb / memory_limit_mb * 100 is compared without
\* dividing: usage_percent >= p is memory_mb * 100 >= p * memory_limit_mb.
_check_resources(service) ==
    (IF truthy(service.memory_mb) /\ truthy(service.memory_limit_mb)
        /\ service.memory_limit_mb[1] > 0
        /\ service.memory_mb[1] * 100 >= memory_threshold_percent * service.memory_limit_mb[1]
     THEN <<Alert(IF service.memory_mb[1] * 100 < 95 * service.memory_limit_mb[1]
                  THEN WARNING ELSE ERROR,
                  service.name, <<"H","i","g","h"," ","m","e","m","o","r","y"," ","u","s","a","g","e"," ","o","n"," ">> \o service.name)>>
     ELSE <<>>)
    \o (IF truthy(service.cpu_percent) /\ service.cpu_percent[1] >= cpu_threshold_percent
        THEN <<Alert(WARNING, service.name, <<"H","i","g","h"," ","C","P","U"," ","u","s","a","g","e"," ","o","n"," ">> \o service.name)>>
        ELSE <<>>)

\* str.upper of a text.
str_upper(s) == [i \in 1..Len(s) |-> IF s[i] \in LowerCh THEN ToUpper[s[i]] ELSE s[i]]
pattern_alerts(service, patterns_matched) ==
    [k \in 1..Len(patterns_matched) |->
        Alert(patterns_matched[k].pattern.level, service.name,
              <<"[">> \o str_upper(patterns_matched[k].pattern.category) \o <<"]"," ">>
                 \o patterns_matched[k].pattern.description)]
_analyze_service_logs(service) ==
    IF service.recent_errors = <<>> THEN <<>>
    ELSE LET analysis == analyze_logs(service.recent_errors)
         IN pattern_alerts(service, analysis.patterns_matched)
            \o (IF service.error_count - analysis.errors_found >= error_threshold
                THEN <<Alert(WARNING, service.name,
                             <<"M","u","l","t","i","p","l","e"," ","u","n","c","l","a","s","s","i","f","i","e","d"," ","e","r","r","o","r","s"," ","i","n"," ">> \o service.name)>>
                ELSE <<>>)

RECURSIVE generate_alerts(_)
generate_alerts(services) ==
    IF services = <<>> THEN <<>>
    ELSE _check_container_state(Head(services))
         \o _check_restarts(Head(services))
         \o _check_resources(Head(services))
         \o _analyze_service_logs(Head(services))
         \o generate_alerts(Tail(services))

create_report(server, services) == DiagnosticReport(server, services, generate_alerts(services))

(***************************************************************************)
(* agent.py: diagnose.                                                     *)
(***************************************************************************)
\* The loop body of _collect_all_data for one service: the status the
\* collector gave, enriched with the restart count, the resources (None when
\* the collector has no figure) and the errors of its logs.
enrich(obs) ==
    LET logs == get_logs(obs.name, obs.logs).entries
    IN ServiceStatus(obs.name, obs.state, obs.restart_count,
                     obs.cpu_percent, obs.memory_mb, obs.memory_limit_mb,
                     collect_errors(logs).error_count, collect_errors(logs).recent_errors)
\* _collect_all_data: the statuses, or raised when get_logs raised.
_collect_all_data(observed) ==
    IF \E k \in 1..Len(observed) : get_logs(observed[k].name, observed[k].logs).raised
    THEN [raised |-> TRUE, statuses |-> <<>>]
    ELSE [raised |-> FALSE, statuses |-> [k \in 1..Len(observed) |-> enrich(observed[k])]]

\* check_security: the issues of check_all as alerts of the service 'server'.
security_alerts(issues) ==
    [k \in 1..Len(issues) |->
        Alert(issues[k].level, <<"s","e","r","v","e","r">>, <<"[","S","E","C","U","R","I","T","Y","]"," ">> \o issues[k].title)]

\* diagnose(include_security), given what the collectors observed and what
\* security_collector.check_all did (raised, or the issues it returned):
\* the report handed back, or raised when a step raised.
diagnose(server, observed, include_security, audit) ==
    LET collected == _collect_all_data(observed)
        report == create_report(server, collected.statuses)
    IN IF collected.raised THEN [raised |-> TRUE, report |-> <<>>]
       ELSE IF ~include_security THEN [raised |-> FALSE, report |-> <<report>>]
       ELSE IF audit.raised THEN [raised |-> TRUE, report |-> <<>>]
       ELSE [raised |-> FALSE,
             report |-> <<_recalculate_health(
                            [report EXCEPT !.alerts = report.alerts \o security_alerts(audit.issues)])>>]

\* The inputs.  What the collectors can observe of a service: its state, its
\* restart count, its resources and the answer of docker compose logs.
ReportLogs ==
    { CommandResult(<<>>, <<>>, 0, <<>>, TRUE),
      CommandResult(join_lines(<<LINE_STARTED, LINE_SCANNER>>), <<>>, 0, <<>>, TRUE),
      CommandResult(LINE_DISK, <<>>, 0, <<>>, TRUE),
      CommandResult(join_lines(<<LINE_REFUSED, LINE_REFUSED, LINE_REFUSED, LINE_REFUSED,
                                 LINE_REFUSED, LINE_REFUSED>>), <<>>, 0, <<>>, TRUE),
      CommandResult(join_lines([i \in 1..15 |-> LINE_REFUSED]), <<>>, 0, <<>>, TRUE) }
Resources ==
    { [cpu_percent |-> <<>>, memory_mb |-> <<>>, memory_limit_mb |-> <<>>],
      [cpu_percent |-> <<12>>, memory_mb |-> <<256>>, memory_limit_mb |-> <<1024>>],
      [cpu_percent |-> <<97>>, memory_mb |-> <<930>>, memory_limit_mb |-> <<1024>>],
      [cpu_percent |-> <<0>>, memory_mb |-> <<1000>>, memory_limit_mb |-> <<1024>>] }
Observations ==
    {[name |-> n, state |-> st, restart_count |-> rc, cpu_percent |-> res.cpu_percent,
      memory_mb |-> res.memory_mb, memory_limit_mb |-> res.memory_limit_mb, logs |-> l] :
        n \in LogServices \cup BadServices, st \in {"running", "exited"}, rc \in {0, 1, 4},
        res \in Resources, l \in ReportLogs}
\* The services of one run: none, one, or one next to a quiet postgres.
Quiet ==
    [name |-> <<"p","o","s","t","g","r","e","s">>, state |-> "running", restart_count |-> 0, cpu_percent |-> <<>>,
     memory_mb |-> <<>>, memory_limit_mb |-> <<>>, logs |-> CommandResult(<<>>, <<>>, 0, <<>>, TRUE)]
Observed == {<<>>} \cup {<<o>> : o \in Observations} \cup {<<o, Quiet>> : o \in Observations}
\* What check_all can hand to check_security: it raised, or the findings of
\* its sub-checks.
Audits ==
    { [raised |-> TRUE, issues |-> <<>>],
      [raised |-> FALSE, issues |-> <<>>],
      [raised |-> FALSE, issues |-> firewall_issues(ufw_status_of(<<"S","t","a","t","u","s",":"," ","i","n","a","c","t","i","v","e">>))],
      [raised |-> FALSE,
       issues |-> _check_auth_enabled(_parse_env_content(<<"A","U","T","H","_","E","N","A","B","L","E","D","=","f","a","l","s","e">>))
                    \o firewall_issues(ufw_status_of(<<"U","F","W","_","N","O","T","_","I","N","S","T","A","L","L","E","D">>))] }

\* Reports constructed directly: up to MaxServices statuses and up to
\* MaxAlerts alerts of any levels.
MaxServices == 1
MaxAlerts == 3
Statuses ==
    {ServiceStatus(<<"n","8","n">>, st, rc, <<>>, <<>>, <<>>, ec, <<>>) :
        st \in {"running", "paused"}, rc \in {0, 2}, ec \in {0, 3, 6}}
RECURSIVE SeqsUpTo(_, _)
SeqsUpTo(S, n) ==
    IF n = 0 THEN {<<>>}
    ELSE SeqsUpTo(S, n - 1) \cup {Append(xs, x) : xs \in {y \in SeqsUpTo(S, n - 1) : Len(y) = n - 1}, x \in S}
AnyAlerts == {Alert(l, <<"n","8","n">>, <<"a","l","e","r","t">>) : l \in AlertLevel}

(***************************************************************************)
(* The security collector: collectors/security/__init__.py (the package    *)
(* Python imports for "from .security import SecurityCollector") and       *)
(* collectors/security.py (the module of the same name).  A step of an     *)
(* audit is what one sub-check did: it raised, or the findings it returned *)
(* and the results of the commands it ran.                                 *)
(***************************************************************************)
\* NetworkSecurityChecker(*args): __init__(self, transport) takes exactly
\* one argument; any other call is a TypeError.
NetworkSecurityChecker(args) ==
    IF Len(args) # 1 THEN [raised |-> TRUE, checker |-> <<>>]
    ELSE [raised |-> FALSE, checker |-> <<[_transport |-> args[1], _ufw_status |-> <<>>]>>]

\* SecurityCollector._get_network_checker: the checker is built with no
\* argument the first time it is asked for.
_get_network_checker(checkers) ==
    IF dict_has(checkers, "network") THEN [raised |-> FALSE, _checkers |-> checkers]
    ELSE LET made == NetworkSecurityChecker(<<>>)
         IN IF made.raised THEN [raised |-> TRUE, _checkers |-> checkers]
            ELSE [raised |-> FALSE, _checkers |-> dict_set(checkers, "network", made.checker[1])]

\* issues.extend(step()) for each step in turn: an exception of a step leaves
\* the caller at once, and the findings extended so far are lost with it.
RECURSIVE extend_all(_, _, _)
extend_all(steps, issues, ran) ==
    IF steps = <<>> THEN [raised |-> FALSE, issues |-> issues, ran |-> ran]
    ELSE IF Head(steps).raised THEN [raised |-> TRUE, issues |-> <<>>, ran |-> ran \o Head(steps).ran]
    ELSE extend_all(Tail(steps), issues \o Head(steps).issues, ran \o Head(steps).ran)

\* No sort at all: the findings in the order of the sub-checks.
_sort_issues_skipped(issues) == issues
\* _sort_issues: sorted(issues, key=severity_order), a stable sort.
RECURSIVE _sort_issues(_)
_sort_issues(issues) ==
    IF issues = <<>> THEN <<>>
    ELSE LET x == issues[Len(issues)]
             ys == _sort_issues(SubSeq(issues, 1, Len(issues) - 1))
             n == Cardinality({i \in 1..Len(ys) : level_order(ys[i].level) <= level_order(x.level)})
         IN SubSeq(ys, 1, n) \o <<x>> \o SubSeq(ys, n + 1, Len(ys))

\* What an audit meets on the server: what the processes of its commands do,
\* and what the sub-checks that are not spelled out here did (the gateway,
\* container, CORS, API, reconnaissance and upstream checks).
StepOutcome(raised_, issues) == [raised |-> raised_, issues |-> issues, ran |-> <<>>]
GATEWAY_EXPOSED ==
    SecurityIssue(CRITICAL, "gateway", <<"M","o","l","t","b","o","t"," ","g","a","t","e","w","a","y"," ","e","x","p","o","s","e","d"," ","w","i","t","h","o","u","t"," ","a","u","t","h","e","n","t","i","c","a","t","i","o","n">>, <<"b","i","n","d","=","l","a","n">>)
BOT_ACTIVITY ==
    SecurityIssue(INFO, "reconnaissance", <<"A","u","t","o","m","a","t","e","d"," ","s","c","a","n","n","i","n","g"," ","d","e","t","e","c","t","e","d"," ","(","4","2"," ","h","i","t","s",")">>, <<>>)

\* check_network of the package: the three network sub-checks on the lazily
\* built checker.  loaded is what _get_network_checker did, ports and
\* firewall what the first two sub-checks did, done the issues extended.
network_done(loaded, memo, done) ==
    [raised |-> done.raised, issues |-> done.issues, ran |-> done.ran,
     _checkers |-> dict_set(loaded._checkers, "network",
                            [dict_at(loaded._checkers, "network") EXCEPT !._ufw_status = memo])]
network_firewall(loaded, in, ports, firewall) ==
    network_done(loaded, firewall.memo, extend_all(<<ports, firewall, in.gateway>>, <<>>, <<>>))
network_ports(loaded, transport_, in, ports) ==
    network_firewall(loaded, in, ports, check_firewall(ports.memo, transport_, in.ufw))
network_loaded(loaded, transport_, in) ==
    IF loaded.raised
    THEN [raised |-> TRUE, issues |-> <<>>, ran |-> <<>>, _checkers |-> loaded._checkers]
    ELSE network_ports(loaded, transport_, in,
                       check_exposed_ports(dict_at(loaded._checkers, "network")._ufw_status,
                                           transport_, in.ufw, in.ports))
check_network(checkers, transport_, in) ==
    network_loaded(_get_network_checker(checkers), transport_, in)

\* SecurityCollector.check_all of the package: network, containers,
\* authentication, then the remaining layers; the findings sorted.  found is
\* the local list issues as the sub-checks extended it, before the sort.
all_done(network, done) ==
    [raised |-> done.raised, ran |-> done.ran, _checkers |-> network._checkers, found |-> done.issues,
     issues |-> IF done.raised THEN <<>> ELSE _sort_issues(done.issues)]
all_network(network, transport_, in) ==
    all_done(network,
             extend_all(<<network, in.containers, check_auth_configuration(transport_, in.env),
                          in.rest>>, <<>>, <<>>))
check_all(checkers, transport_, in) ==
    all_network(check_network(checkers, transport_, in), transport_, in)

\* SecurityCollector.check_all of security.py: the sub-checks are methods of
\* the collector, which keeps the firewall status in self._ufw_status.
module_done(memo, done) ==
    [raised |-> done.raised, ran |-> done.ran, memo |-> memo, found |-> done.issues,
     issues |-> IF done.raised THEN <<>> ELSE _sort_issues(done.issues)]
module_firewall(ports, firewall, transport_, in) ==
    module_done(firewall.memo,
                extend_all(<<ports, firewall, in.gateway, in.containers,
                             check_auth_configuration(transport_, in.env), in.rest>>, <<>>, <<>>))
module_ports(ports, transport_, in) ==
    module_firewall(ports, check_firewall(ports.memo, transport_, in.ufw), transport_, in)
module_check_all(memo, transport_, in) ==
    module_ports(check_exposed_ports(memo, transport_, in.ufw, in.ports), transport_, in)

\* The inputs of one audit: each command exits with an output, or ssh fails.
Exited(texts) == {out \in Ran(texts) : out.kind = "exit"}
AuditInputs ==
    [ufw : Exited({ <<"S","t","a","t","u","s",":"," ","a","c","t","i","v","e","\n","2","2","/","t","c","p"," ","A","L","L","O","W"," ","A","n","y","w","h","e","r","e">>, <<"S","t","a","t","u","s",":"," ","i","n","a","c","t","i","v","e">> }),
     ports : Exited({ <<"L","I","S","T","E","N"," ","0"," ","1","2","8"," ","0",".","0",".","0",".","0",":","5","4","3","2"," ","0",".","0",".","0",".","0",":","*","\n","L","I","S","T","E","N"," ","0"," ","1","2","8"," ","1","2","7",".","0",".","0",".","1",":","6","3","7","9"," ","0",".","0",".","0",".","0",":","*">> }),
     env : Exited({ <<"A","U","T","H","_","E","N","A","B","L","E","D","=","t","r","u","e","\n","M","A","S","T","E","R","_","K","E","Y","_","H","A","S","H","=","\"","a","b","c","1","2","3","\"","\n","I","N","T","E","R","N","A","L","_","S","E","R","V","I","C","E","_","S","E","C","R","E","T","=","s","3","c","r","e","t">> }),
     gateway : {StepOutcome(FALSE, <<>>), StepOutcome(FALSE, <<GATEWAY_EXPOSED>>), StepOutcome(TRUE, <<>>)},
     containers : {StepOutcome(FALSE, <<>>)},
     rest : {StepOutcome(FALSE, <<>>), StepOutcome(FALSE, <<BOT_ACTIVITY>>)}]
\* The audits run on one collector.
MaxAudits == 2

(***************************************************************************)
(* config.py and agent.py: the agent built from the environment.  An       *)
(* exception is its type and str(e); an unset variable is the empty text.  *)
(***************************************************************************)
Exception(type, msg) == [type |-> type, msg |-> msg]

\* s.split(','), then the stripped parts that are not empty.
RECURSIVE split_comma(_)
split_comma(s) ==
    LET at == {i \in 1..Len(s) : s[i] = ","}
    IN IF at = {} THEN <<s>>
       ELSE <<SubSeq(s, 1, SetMin(at) - 1)>> \o split_comma(SubSeq(s, SetMin(at) + 1, Len(s)))
RECURSIVE stripped_parts(_)
stripped_parts(parts) ==
    IF parts = <<>> THEN <<>>
    ELSE (IF strip(Head(parts)) # <<>> THEN <<strip(Head(parts))>> ELSE <<>>)
         \o stripped_parts(Tail(parts))

\* ServerConfig.from_env: the configuration, or the ValueError it raises.
ServerConfig_from_env(environ) ==
    LET services == stripped_parts(split_comma(environ.SERVER_SERVICES))
    IN IF environ.SERVER_HOST = <<>>
       THEN [raised |-> <<Exception("ValueError", <<"S","E","R","V","E","R","_","H","O","S","T"," ","e","n","v","i","r","o","n","m","e","n","t"," ","v","a","r","i","a","b","l","e"," ","i","s"," ","r","e","q","u","i","r","e","d">>)>>,
             config |-> <<>>]
       ELSE IF environ.SERVER_COMPOSE_PATH = <<>>
       THEN [raised |-> <<Exception("ValueError", <<"S","E","R","V","E","R","_","C","O","M","P","O","S","E","_","P","A","T","H"," ","e","n","v","i","r","o","n","m","e","n","t"," ","v","a","r","i","a","b","l","e"," ","i","s"," ","r","e","q","u","i","r","e","d">>)>>,
             config |-> <<>>]
       ELSE IF services = <<>>
       THEN [raised |-> <<Exception("ValueError",
                 <<"S","E","R","V","E","R","_","S","E","R","V","I","C","E","S"," ","e","n","v","i","r","o","n","m","e","n","t"," ","v","a","r","i","a","b","l","e"," ","i","s"," ","r","e","q","u","i","r","e","d","."," ","E","x","a","m","p","l","e",":"," ","S","E","R","V","E","R","_","S","E","R","V","I","C","E","S","=","n","g","i","n","x",",","p","o","s","t","g","r","e","s",",","r","e","d","i","s">>)>>,
             config |-> <<>>]
       ELSE [raised |-> <<>>,
             config |-> <<[host |-> environ.SERVER_HOST, user |-> <<"u","b","u","n","t","u">>, port |-> DEFAULT_PORT,
                           compose_path |-> environ.SERVER_COMPOSE_PATH, ssh_key |-> <<>>,
                           timeout |-> DEFAULT_TIMEOUT, services |-> services]>>]

\* ServerAgent.from_env: the agent keeps the ServerConfig object, which its
\* transport and collectors share.
ServerAgent_from_env(environ) ==
    LET loaded == ServerConfig_from_env(environ)
    IN IF loaded.raised # <<>> THEN [raised |-> loaded.raised, agent |-> <<>>]
       ELSE [raised |-> <<>>, agent |-> <<[server_config |-> loaded.config[1]]>>]

(***************************************************************************)
(* mcp_handlers.py.  The module's state is the global _agent (<<>> is      *)
(* None, <<i>> the i-th agent object built) and the agent objects built so *)
(* far; a handler's outcome says what it returned or raised, the state it  *)
(* left, and what it called.                                               *)
(***************************************************************************)
\* get_agent() that builds an agent on every call.
get_agent_uncached(agent_, agents_, environ) ==
    LET made == ServerAgent_from_env(environ)
    IN IF made.raised # <<>>
       THEN [raised |-> made.raised, agent |-> <<>>, _agent |-> agent_, agents |-> agents_,
             from_env |-> 1]
       ELSE [raised |-> <<>>, agent |-> <<Len(agents_) + 1>>, _agent |-> <<Len(agents_) + 1>>,
             agents |-> Append(agents_, made.agent[1]), from_env |-> 1]
get_agent(agent_, agents_, environ) ==
    IF agent_ # <<>>
    THEN [raised |-> <<>>, agent |-> agent_, _agent |-> agent_, agents |-> agents_, from_env |-> 0]
    ELSE LET made == ServerAgent_from_env(environ)
         IN IF made.raised # <<>>
            THEN [raised |-> made.raised, agent |-> <<>>, _agent |-> agent_, agents |-> agents_,
                  from_env |-> 1]
            ELSE [raised |-> <<>>, agent |-> <<Len(agents_) + 1>>, _agent |-> <<Len(agents_) + 1>>,
                  agents |-> Append(agents_, made.agent[1]), from_env |-> 1]

\* reset_agent(): the cache is cleared; the agent objects live on for those
\* who hold them.
reset_agent(agent_) == <<>>

\* What a handler did: the text it returned or the exception that left it,
\* the agent get_agent gave it, the commands it had the transport execute and
\* the diagnose calls it made.
Handled(raised_, result, got, agents_, executed, diagnosed) ==
    [raised |-> raised_, result |-> result, agent |-> got.agent, _agent |-> got._agent,
     agents |-> agents_, from_env |-> got.from_env, executed |-> executed, diagnosed |-> diagnosed]
\* str(n) of an integer.
int_str_signed(n) == IF n < 0 THEN <<"-">> \o int_str(0 - n) ELSE int_str(n)
NotGot(agent_, agents_) ==
    [raised |-> <<>>, agent |-> <<>>, _agent |-> agent_, agents |-> agents_, from_env |-> 0]

BLOCKED_HELP ==
    <<"\n","\n","A","l","l","o","w","e","d"," ","c","o","m","m","a","n","d","s",":","\n","-"," ","d","o","c","k","e","r"," ","p","s","/","l","o","g","s","/","i","n","s","p","e","c","t","/","s","t","a","t","s","\n","-"," ","d","o","c","k","e","r"," ","c","o","m","p","o","s","e"," ","p","s","/","l","o","g","s","\n","-"," ","S","y","s","t","e","m"," ","i","n","f","o",":"," ","d","f",","," ","f","r","e","e",","," ","t","o","p",","," ","p","s",","," ","n","e","t","s","t","a","t","\n","-"," ","L","o","g"," ","v","i","e","w","i","n","g",":"," ","c","a","t","/","t","a","i","l","/","h","e","a","d"," ","/","v","a","r","/","l","o","g","/","*","\n","-"," ","s","y","s","t","e","m","c","t","l"," ","s","t","a","t","u","s",","," ","j","o","u","r","n","a","l","c","t","l">>

\* handle_server_exec from "agent = get_agent()" on: got is what get_agent
\* did, ran what transport.execute did.
exec_text(result) ==
    IF result.success
    THEN (IF result.stdout # <<>> THEN result.stdout ELSE <<"(","n","o"," ","o","u","t","p","u","t",")">>)
    ELSE <<"C","o","m","m","a","n","d"," ","f","a","i","l","e","d"," ","(","e","x","i","t"," ","c","o","d","e"," ">> \o int_str_signed(result.return_code)
            \o <<")",":","\n">> \o result.stderr
exec_ran(command, got, ran, out) ==
    IF ran.raised
    THEN Handled(<<Exception(out.kind, out.msg)>>, <<>>, got, got.agents, <<command>>, <<>>)
    ELSE Handled(<<>>, exec_text(ran.returned[1]), got, got.agents, <<command>>, <<>>)
exec_got(command, got, out) ==
    IF got.raised # <<>>
    THEN Handled(got.raised, <<>>, got, got.agents, <<>>, <<>>)
    ELSE exec_ran(command, got,
                  execute(got.agents[got.agent[1]].server_config, command, 0, FALSE, out), out)
exec_validated(command, verdict, agent_, agents_, environ, out) ==
    IF ~verdict.allowed
    THEN Handled(<<>>, <<"C","o","m","m","a","n","d"," ","b","l","o","c","k","e","d",":"," ">> \o verdict.reason \o BLOCKED_HELP,
                 NotGot(agent_, agents_), agents_, <<>>, <<>>)
    ELSE exec_got(command, get_agent(agent_, agents_, environ), out)
\* handle_server_exec without the allowlist check.
handle_server_exec_unchecked(arguments, agent_, agents_, environ, out) ==
    IF arguments.command = <<>>
    THEN Handled(<<Exception("KeyError", <<"'","c","o","m","m","a","n","d","'">>)>>, <<>>, NotGot(agent_, agents_), agents_, <<>>, <<>>)
    ELSE exec_got(arguments.command[1], get_agent(agent_, agents_, environ), out)
\* handle_server_exec(arguments), when the process of the command does out.
handle_server_exec(arguments, agent_, agents_, environ, out) ==
    IF arguments.command = <<>>
    THEN Handled(<<Exception("KeyError", <<"'","c","o","m","m","a","n","d","'">>)>>, <<>>, NotGot(agent_, agents_), agents_, <<>>, <<>>)
    ELSE exec_validated(arguments.command[1], is_command_allowed(arguments.command[1]),
                        agent_, agents_, environ, out)

\* handle_server_diagnose from "report = agent.diagnose()" on: the agents
\* after the override, and the diagnose call made on agent id.
diagnose_text(config, outcome) ==
    IF outcome.needs_attention
    THEN outcome.to_ai_prompt \o <<"\n","\n","-","-","-"," ","D","E","T","A","I","L","E","D"," ","J","S","O","N"," ","-","-","-","\n">> \o outcome.json
    ELSE <<"A","l","l"," ","s","e","r","v","i","c","e","s"," ","h","e","a","l","t","h","y"," ","o","n"," ">> \o config.host \o <<"."," ">>
            \o int_str(Len(config.services)) \o <<" ","s","e","r","v","i","c","e","s"," ","c","h","e","c","k","e","d",","," ","n","o"," ","i","s","s","u","e","s"," ","f","o","u","n","d",".">>
diagnose_called(got, overridden, config, outcome) ==
    Handled(outcome.raised,
            IF outcome.raised # <<>> THEN <<>> ELSE diagnose_text(config, outcome),
            got, overridden, <<>>,
            <<[services_override |-> <<>>, target_services |-> config.services]>>)
diagnose_overridden(got, overridden, outcome) ==
    diagnose_called(got, overridden, overridden[got.agent[1]].server_config, outcome)
diagnose_got(arguments, got, outcome) ==
    IF got.raised # <<>>
    THEN Handled(got.raised, <<>>, got, got.agents, <<>>, <<>>)
    ELSE diagnose_overridden(got,
            IF arguments.services # <<>> /\ arguments.services[1] # <<>>
            THEN [got.agents EXCEPT ![got.agent[1]].server_config.services = arguments.services[1]]
            ELSE got.agents,
            outcome)
\* handle_server_diagnose(arguments), when agent.diagnose() does outcome: it
\* raises, or returns a report of which the handler renders the texts.
handle_server_diagnose(arguments, agent_, agents_, environ, outcome) ==
    diagnose_got(arguments, get_agent(agent_, agents_, environ), outcome)

\* handle_server_health(arguments), when docker ps shows the containers of
\* running as running and no other.
RECURSIVE health_lines(_, _)
health_lines(services, running) ==
    IF services = <<>> THEN <<>>
    ELSE <<IF Head(services) \in running THEN <<" "," ","[","O","K","]"," ">> \o Head(services)
           ELSE <<" "," ","[","!","!","]"," ">> \o Head(services) \o <<":"," ","e","x","i","t","e","d">>>>
         \o health_lines(Tail(services), running)
health_text(config, running, unhealthy) ==
    join_lines(<<<<"H","e","a","l","t","h"," ","c","h","e","c","k"," ","f","o","r"," ">> \o config.host \o <<":">>, <<>>>>
               \o health_lines(config.services, running)
               \o <<<<>>, <<"S","u","m","m","a","r","y",":"," ">> \o int_str(Len(config.services) - unhealthy)
                            \o <<" ","h","e","a","l","t","h","y",","," ">> \o int_str(unhealthy) \o <<" ","u","n","h","e","a","l","t","h","y">>>>
               \o (IF unhealthy > 0
                   THEN <<<<"\n","R","e","c","o","m","m","e","n","d","a","t","i","o","n",":"," ","R","u","n"," ","s","e","r","v","e","r","_","d","i","a","g","n","o","s","e"," ","f","o","r"," ","d","e","t","a","i","l","e","d"," ","a","n","a","l","y","s","i","s",".">>>>
                   ELSE <<>>))
health_of(config, running) ==
    health_text(config, running,
                Cardinality({i \in 1..Len(config.services) : config.services[i] \notin running}))
health_got(got, running) ==
    IF got.raised # <<>>
    THEN Handled(got.raised, <<>>, got, got.agents, <<>>, <<>>)
    ELSE Handled(<<>>, health_of(got.agents[got.agent[1]].server_config, running),
                 got, got.agents, <<>>, <<>>)
handle_server_health(arguments, agent_, agents_, environ, running) ==
    health_got(get_agent(agent_, agents_, environ), running)

\* The names of HANDLERS.
HANDLERS ==
    {"server_diagnose", "server_status", "server_logs", "server_restart", "server_exec",
     "server_analyze_logs", "server_health", "server_security", "server_prune", "server_deploy"}
ToolText(name) ==
    CASE name = "server_diagnose" -> <<"s","e","r","v","e","r","_","d","i","a","g","n","o","s","e">>
      [] name = "server_exec" -> <<"s","e","r","v","e","r","_","e","x","e","c">>
      [] name = "server_health" -> <<"s","e","r","v","e","r","_","h","e","a","l","t","h">>
      [] name = "nonexistent_tool" -> <<"n","o","n","e","x","i","s","t","e","n","t","_","t","o","o","l">>
      [] OTHER -> <<>>

\* The handler of a name, on what the server does (in) while it runs.
handler(name, arguments, agent_, agents_, environ, in) ==
    CASE name = "server_exec" -> handle_server_exec(arguments, agent_, agents_, environ, in.out)
      [] name = "server_diagnose" -> handle_server_diagnose(arguments, agent_, agents_, environ, in.outcome)
      [] name = "server_health" -> handle_server_health(arguments, agent_, agents_, environ, in.running)

\* What handle_tool did: did is the handler's outcome, raised whether an
\* exception left handle_tool, result the text it returned.
Dispatched(did, raised_, result, handler_ran) ==
    [raised |-> raised_, result |-> result, handler_ran |-> handler_ran, handler_raised |-> did.raised,
     agent |-> did.agent, _agent |-> did._agent, agents |-> did.agents, from_env |-> did.from_env,
     executed |-> did.executed, diagnosed |-> did.diagnosed]
\* "return handler(arguments)" and the except clause, did being what the
\* handler did.
returned_or_raised(name, did) == Dispatched(did, did.raised # <<>>, did.result, TRUE)
returned_or_caught(name, did) ==
    Dispatched(did, FALSE,
               IF did.raised = <<>> THEN did.result
               ELSE <<"E","r","r","o","r"," ","e","x","e","c","u","t","i","n","g"," ">> \o ToolText(name) \o <<":"," ">> \o did.raised[1].msg,
               TRUE)
\* handle_tool without its try/except.
handle_tool_uncaught(name, arguments, agent_, agents_, environ, in) ==
    IF name \notin HANDLERS
    THEN Dispatched(Handled(<<>>, <<>>, NotGot(agent_, agents_), agents_, <<>>, <<>>),
                    FALSE, <<"U","n","k","n","o","w","n"," ","t","o","o","l",":"," ">> \o ToolText(name), FALSE)
    ELSE returned_or_raised(name, handler(name, arguments, agent_, agents_, environ, in))
handle_tool(name, arguments, agent_, agents_, environ, in) ==
    IF name \notin HANDLERS
    THEN Dispatched(Handled(<<>>, <<>>, NotGot(agent_, agents_), agents_, <<>>, <<>>),
                    FALSE, <<"U","n","k","n","o","w","n"," ","t","o","o","l",":"," ">> \o ToolText(name), FALSE)
    ELSE returned_or_caught(name, handler(name, arguments, agent_, agents_, environ, in))

\* The inputs.  The environment the process runs in.
Environs ==
    { [SERVER_HOST |-> <<"1","0",".","0",".","0",".","5">>, SERVER_SERVICES |-> <<"n","g","i","n","x",",","p","o","s","t","g","r","e","s">>,
       SERVER_COMPOSE_PATH |-> <<"~","/","d","o","c","k","e","r","-","p","r","o","j","e","c","t">>],
      [SERVER_HOST |-> <<"l","o","c","a","l","h","o","s","t">>, SERVER_SERVICES |-> <<" ","n","8","n"," ",","," ",",","r","e","d","i","s">>,
       SERVER_COMPOSE_PATH |-> <<"/","s","r","v","/","a","p","p">>],
      [SERVER_HOST |-> <<>>, SERVER_SERVICES |-> <<"n","g","i","n","x">>, SERVER_COMPOSE_PATH |-> <<"/","s","r","v","/","a","p","p">>] }
\* What agent.diagnose() can do: raise what check_all raised, or return a
\* report.
DiagnoseOutcomes ==
    { [raised |-> <<Exception("TypeError",
          <<"N","e","t","w","o","r","k","S","e","c","u","r","i","t","y","C","h","e","c","k","e","r",".","_","_","i","n","i","t","_","_","(",")"," ","m","i","s","s","i","n","g"," ","1"," ","r","e","q","u","i","r","e","d"," ","p","o","s","i","t","i","o","n","a","l"," ","a","r","g","u","m","e","n","t",":"," ","'","t","r","a","n","s","p","o","r","t","'">>)>>,
       needs_attention |-> FALSE, to_ai_prompt |-> <<>>, json |-> <<>>],
      [raised |-> <<>>, needs_attention |-> FALSE, to_ai_prompt |-> <<>>, json |-> <<>>],
      [raised |-> <<>>, needs_attention |-> TRUE,
       to_ai_prompt |-> <<"[","S","E","R","V","E","R"," ","D","I","A","G","N","O","S","T","I","C"," ","A","L","E","R","T","]"," ","1","0",".","0",".","0",".","5","\n","O","v","e","r","a","l","l"," ","S","t","a","t","u","s",":"," ","C","R","I","T","I","C","A","L","\n">>,
       json |-> <<"{","}">>] }
ExecOutcomes ==
    { [kind |-> "exit", rc |-> 0, stdout |-> <<"o","k","\n">>, stderr |-> <<>>, msg |-> <<>>],
      [kind |-> "exit", rc |-> 1, stdout |-> <<>>, stderr |-> <<"w","a","r","n","i","n","g",":"," ","x","\n">>, msg |-> <<>>],
      [kind |-> "TimeoutExpired", rc |-> 0, stdout |-> <<>>, stderr |-> <<>>, msg |-> <<>>] }
NoInput == [out |-> CHOOSE o \in ExecOutcomes : o.rc = 1,
            outcome |-> CHOOSE o \in DiagnoseOutcomes : o.needs_attention, running |-> {}]
\* The tool calls: the name, the arguments and what the server does meanwhile.
ToolCall(name, command, services, in) ==
    [name |-> name, arguments |-> [command |-> command, services |-> services], in |-> in]
ToolCalls ==
    {ToolCall("server_exec", << <<"d","o","c","k","e","r"," ","p","s">> >>, <<>>, [NoInput EXCEPT !.out = o]) : o \in ExecOutcomes}
    \cup {ToolCall("server_exec", c, <<>>, NoInput) :
            c \in {<<>>, << <<"r","m"," ","-","r","f"," ","/">> >>, << <<"c","u","s","t","o","m","_","s","c","r","i","p","t",".","s","h">> >>}}
    \cup {ToolCall("server_diagnose", <<>>, s, [NoInput EXCEPT !.outcome = o]) :
            s \in {<<>>, << <<>> >>, << << <<"n","g","i","n","x">> >> >>},
            o \in {d \in DiagnoseOutcomes : ~d.needs_attention}}
    \cup {ToolCall("server_diagnose", <<>>, <<>>, NoInput)}
    \cup {ToolCall("server_health", <<>>, <<>>, [NoInput EXCEPT !.running = r]) :
            r \in { {}, { <<"n","g","i","n","x">>, <<"n","8","n">> } }}
    \cup {ToolCall("nonexistent_tool", <<>>, <<>>, NoInput)}
\* The calls made on the module, and the agents it may build.
MaxCalls == 3

(***************************************************************************)
(* Requests on the event loop: mcp_server_sse.py.  A server_diagnose call  *)
(* is taken step by step, each step reading the configuration through the  *)
(* agent the call holds: get_agent, the override of the services, the      *)
(* services diagnose targets, the host and path the transport uses, the    *)
(* server the report names.                                                *)
(***************************************************************************)
\* The steps at which a tool call is under way.
Running == {"got", "overridden", "targeted", "collected"}
\* A tool call received and not yet started; reloads_ is the number of
\* reloads served before it arrived.
Task(arguments, reloads_) ==
    [arguments |-> arguments, pc |-> "new", raised |-> <<>>, agent |-> <<>>, began |-> <<>>,
     target_services |-> <<>>, collected |-> <<>>, server |-> <<>>,
     arrived |-> reloads_, started |-> <<>>]

\* call_tool that awaits between the steps of the handler: any callback is
\* given a turn at any step.
call_tool_suspending(tasks_, t) == TRUE
\* call_tool: handle_tool is called, not awaited, so the coroutine of a tool
\* call has no suspension point: the loop gives callback t a turn only when
\* no other tool call is under way.
call_tool(tasks_, t) == \A u \in DOMAIN tasks_ : u # t => tasks_[u].pc \notin Running

\* "if arguments.get('services'): agent.server_config.services = ..."
override_services(arguments, agents_, id) ==
    IF arguments.services # <<>> /\ arguments.services[1] # <<>>
    THEN [agents_ EXCEPT ![id].server_config.services = arguments.services[1]]
    ELSE agents_
\* diagnose: "target_services = services_override or self.server_config.services"
target_services(services_override, server_config) ==
    IF services_override # <<>> /\ services_override[1] # <<>> THEN services_override[1]
    ELSE server_config.services
\* What the transport reads of its config for the commands of a run: the
\* host of the ssh target and the compose path.
transport_reads(config) == [host |-> config.host, compose_path |-> config.compose_path]

\* The services arguments of the server_diagnose calls.
DiagnoseArguments == {[services |-> <<>>], [services |-> << <<<<"n","g","i","n","x">>>> >>]}
\* The tool calls received, and the reloads served.
MaxTasks == 2
MaxReloads == 1

(***************************************************************************)
(* collectors/logs.py: the message of a log line.                          *)
(***************************************************************************)
\* The text has the characters of the classes cs, in turn, after its first i.
FixedAt(line, i, cs) ==
    /\ i + Len(cs) <= Len(line)
    /\ \A k \in 1..Len(cs) : line[i + k] \in cs[k]
\* How many characters of S follow the first i of the text.
RunLen(line, i, S) ==
    SetMax({n \in 0..(Len(line) - i) : \A k \in 1..n : line[i + k] \in S})
D == DigitCh
HMS == <<D, D, {":"}, D, D, {":"}, D, D>>
YMD == <<D, D, D, D, {"-"}, D, D, {"-"}, D, D>>
\* Where the match of TIMESTAMP_PATTERNS[k] at the start of the line ends
\* (<<>> when it does not match); each optional part takes what it can.
\* 1: ^(\d{4}-\d{2}-\d{2}T\d{2}:\d{2}:\d{2}(?:\.\d+)?(?:Z|[+-]\d{2}:?\d{2})?)
\* 2: ^(\d{4}-\d{2}-\d{2}\s+\d{2}:\d{2}:\d{2})
\* 3: ^([A-Z][a-z]{2}\s+\d{1,2}\s+\d{2}:\d{2}:\d{2})
iso_end(line) ==
    LET seconds == Len(YMD) + 1 + Len(HMS)
        fraction == IF FixedAt(line, seconds, <<{"."}, D>>)
                    THEN seconds + 1 + RunLen(line, seconds + 1, D) ELSE seconds
        zone == IF FixedAt(line, fraction, <<{"Z"}>>) THEN fraction + 1
                ELSE IF FixedAt(line, fraction, <<{"+", "-"}, D, D, {":"}, D, D>>) THEN fraction + 6
                ELSE IF FixedAt(line, fraction, <<{"+", "-"}, D, D, D, D>>) THEN fraction + 5
                ELSE fraction
    IN IF FixedAt(line, 0, YMD \o <<{"T"}>> \o HMS) THEN <<zone>> ELSE <<>>
compose_end(line) ==
    LET gap == RunLen(line, Len(YMD), SpaceCh)
    IN IF FixedAt(line, 0, YMD) /\ gap >= 1 /\ FixedAt(line, Len(YMD) + gap, HMS)
       THEN <<Len(YMD) + gap + Len(HMS)>> ELSE <<>>
syslog_end(line) ==
    LET gap1 == RunLen(line, 3, SpaceCh)
        days == {n \in {2, 1} : /\ FixedAt(line, 3 + gap1, [k \in 1..n |-> D])
                                /\ RunLen(line, 3 + gap1 + n, SpaceCh) >= 1
                                /\ FixedAt(line, 3 + gap1 + n + RunLen(line, 3 + gap1 + n, SpaceCh), HMS)}
        day == SetMax(days)
    IN IF FixedAt(line, 0, <<UpperCh, LowerCh, LowerCh>>) /\ gap1 >= 1 /\ days # {}
       THEN <<3 + gap1 + day + RunLen(line, 3 + gap1 + day, SpaceCh) + Len(HMS)>> ELSE <<>>
TIMESTAMP_PATTERNS(k, line) ==
    CASE k = 1 -> iso_end(line) [] k = 2 -> compose_end(line) [] k = 3 -> syslog_end(line)
\* re.sub(pattern, '', line, count=1) for the k-th pattern.
re_sub_prefix(k, line) ==
    IF TIMESTAMP_PATTERNS(k, line) = <<>> THEN line
    ELSE SubSeq(line, TIMESTAMP_PATTERNS(k, line)[1] + 1, Len(line))

\* ^[\[\(]?(ERROR|WARN|WARNING|INFO|DEBUG|LOG|FATAL)[\]\)]?:?\s* with
\* re.IGNORECASE: the alternatives are tried in order and the first that
\* matches is kept, since all that follows it can match nothing.
LEVEL_PREFIXES == << <<"E","R","R","O","R">>, <<"W","A","R","N">>, <<"W","A","R","N","I","N","G">>, <<"I","N","F","O">>, <<"D","E","B","U","G">>, <<"L","O","G">>, <<"F","A","T","A","L">> >>
LEVEL_PREFIX_REST == Cat(<<Opt(Cls({"]", ")"})), Opt(Lit(<<":">>)), SpS>>)
sub_level_prefix(line) ==
    LET open == IF line # <<>> /\ line[1] \in {"[", "("} THEN 1 ELSE 0
        found == {k \in 1..Len(LEVEL_PREFIXES) : LitAt(LEVEL_PREFIXES[k], line, open, TRUE)}
        after == open + Len(LEVEL_PREFIXES[SetMin(found)])
    IN IF found = {} THEN line
       ELSE SubSeq(line, SetMax(Ends(LEVEL_PREFIX_REST, line, {after}, FALSE)) + 1, Len(line))

\* _extract_message: line is assigned anew at each step, so the line that
\* "line.strip() or line" falls back to is the one the prefixes were taken off.
_extract_message(line) ==
    LET l1 == strip(re_sub_prefix(1, line))
        l2 == strip(re_sub_prefix(2, l1))
        l3 == strip(re_sub_prefix(3, l2))
        l4 == sub_level_prefix(l3)
    IN IF strip(l4) # <<>> THEN strip(l4) ELSE l4

\* The LogEntry _parse_logs appends for a line that is not blank, but with
\* the line without its compose prefix as raw.
parsed_line_clean(line, service) ==
    LET clean_line == _strip_compose_prefix(line)
    IN [level |-> _detect_level(clean_line), message |-> _extract_message(clean_line),
        service |-> service, raw |-> clean_line]
\* The LogEntry _parse_logs appends for a line that is not blank (its
\* timestamp left aside).
parsed_line(line, service) ==
    LET clean_line == _strip_compose_prefix(line)
    IN [level |-> _detect_level(clean_line), message |-> _extract_message(clean_line),
        service |-> service, raw |-> line]
\* _parse_logs with the message of each entry.
RECURSIVE parse_entries(_, _, _)
parse_entries(lines, k, service) ==
    IF k > Len(lines) THEN <<>>
    ELSE IF strip(lines[k]) = <<>> THEN parse_entries(lines, k + 1, service)
    ELSE <<parsed_line(lines[k], service)>> \o parse_entries(lines, k + 1, service)
parse_log_text(raw_logs, service) == parse_entries(split_lines(raw_logs), 1, service)

\* The inputs: the lines docker compose logs prints.
TextLines ==
    { <<"E","R","R","O","R",":">>, <<"n","8","n","-","1"," "," ","|"," ","2","0","2","4","-","0","1","-","1","5"," ","1","0",":","3","0",":","4","5"," ","W","A","R","N","I","N","G",":"," ","s","l","o","w"," ","q","u","e","r","y">>, <<" "," ">>, <<>>,
      <<" ","[","i","n","f","o","]"," ","u","p"," ">>, <<"2","0","2","4","-","0","1","-","1","5","T","1","0",":","3","0",":","4","5",".","1","2","3","Z">>, <<"J","a","n"," "," ","5"," ","1","0",":","3","0",":","4","5"," ","(","I","N","F","O",")",":"," ","u","p">> }
MaxLines == 3
RECURSIVE Texts(_)
Texts(n) ==
    IF n = 0 THEN {<<>>}
    ELSE Texts(n - 1) \cup {Append(ls, l) : ls \in {x \in Texts(n - 1) : Len(x) = n - 1}, l \in TextLines}

(***************************************************************************)
(* models.py: what handle_server_diagnose reads of the report it renders.  *)
(***************************************************************************)
\* ServiceStatus.is_healthy.
is_healthy(s) == s.state = "running" /\ s.restart_count = 0 /\ s.error_count = 0

\* DiagnosticReport.needs_attention.
needs_attention(report) == report.overall_health \in {"critical", "degraded"}

\* self.overall_health.upper().
health_upper(overall_health) ==
    CASE overall_health = "critical" -> <<"C","R","I","T","I","C","A","L">>
      [] overall_health = "degraded" -> <<"D","E","G","R","A","D","E","D">>
      [] overall_health = "warning" -> <<"W","A","R","N","I","N","G">>
      [] overall_health = "healthy" -> <<"H","E","A","L","T","H","Y">>
      [] OTHER -> <<"U","N","K","N","O","W","N">>

\* DiagnosticReport.to_ai_prompt: the one line of a report without issues, or
\* the two lines that head the list of its issues.
to_ai_prompt(report) ==
    IF (\A i \in 1..Len(report.services) : is_healthy(report.services[i])) /\ report.alerts = <<>>
    THEN <<"S","e","r","v","e","r"," ">> \o report.server \o <<" ","i","s"," ","h","e","a","l","t","h","y","."," ","A","l","l"," ">> \o int_str(Len(report.services))
            \o <<" ","s","e","r","v","i","c","e","s"," ","r","u","n","n","i","n","g"," ","n","o","r","m","a","l","l","y",".">>
    ELSE <<"[","S","E","R","V","E","R"," ","D","I","A","G","N","O","S","T","I","C"," ","A","L","E","R","T","]"," ">> \o report.server \o <<"\n","O","v","e","r","a","l","l"," ","S","t","a","t","u","s",":"," ">>
            \o health_upper(report.overall_health) \o <<"\n">>

\* handle_server_diagnose from "if report.needs_attention" on, for the report
\* agent.diagnose() returned; the JSON of the report is left as {}.
render_report(report) ==
    diagnose_text([host |-> report.server, services |-> report.services],
                  [needs_attention |-> needs_attention(report),
                   to_ai_prompt |-> to_ai_prompt(report), json |-> <<"{","}">>])

(***************************************************************************)
(* deploy.py: a deploy started in the background and polled for its        *)
(* status.                                                                 *)
(***************************************************************************)
DeployResult(success, deploy_id, log_file, error) ==
    [success |-> success, deploy_id |-> deploy_id, log_file |-> log_file, error |-> error]
DeployStatus(status, process_running, log_file, log_content, file_info) ==
    [status |-> status, process_running |-> process_running, log_file |-> log_file,
     log_content |-> log_content, file_info |-> file_info]

\* shlex.quote: '' for the empty text, the text itself when it has none but
\* [\w@%+=:,./-], else the text in single quotes, each ' in it as '"'"'.
ShlexSafeCh == AlnumCh \cup {"_", "@", "%", "+", "=", ":", ",", ".", "/", "-"}
RECURSIVE shlex_escaped(_)
shlex_escaped(s) ==
    IF s = <<>> THEN <<>>
    ELSE (IF Head(s) = "'" THEN <<"'","\"","'","\"","'">> ELSE <<Head(s)>>) \o shlex_escaped(Tail(s))
shlex_quote(s) ==
    IF s = <<>> THEN <<"'","'">>
    ELSE IF \A i \in 1..Len(s) : s[i] \in ShlexSafeCh THEN s
    ELSE <<"'">> \o shlex_escaped(s) \o <<"'">>

\* sep.join(parts).
RECURSIVE str_join(_, _)
str_join(sep, parts) ==
    IF parts = <<>> THEN <<>>
    ELSE IF Len(parts) = 1 THEN parts[1]
    ELSE parts[1] \o sep \o str_join(sep, Tail(parts))

\* ^[a-zA-Z0-9._~/-]+$ of start_background_deploy.
PROJECT_PATH == Cat(<<Bol, Plus(Cls(AlnumCh \cup {".", "_", "~", "/", "-"})), Eol>>)

\* The loop over the services: <<>> when all are valid, else <<the error of
\* the first that is not>>.
RECURSIVE invalid_service(_)
invalid_service(services) ==
    IF services = <<>> THEN <<>>
    ELSE IF ~validate_service_name(Head(services)).valid
    THEN << <<"I","n","v","a","l","i","d"," ","s","e","r","v","i","c","e"," ","'">> \o Head(services) \o <<"'",":"," ">>
               \o validate_service_name(Head(services)).reason >>
    ELSE invalid_service(Tail(services))

\* The steps of the deploy script and the command that runs them detached.
deploy_steps(safe_path, services_arg, do_build, do_pull) ==
    << <<"c","d"," ">> \o safe_path >>
    \o (IF do_pull
        THEN << <<"e","c","h","o"," ","\"","=","=","="," ","P","u","l","l","i","n","g"," ","l","a","t","e","s","t"," ","c","h","a","n","g","e","s"," ","=","=","=","\""," ","&","&"," ","g","i","t"," ","f","e","t","c","h"," ","o","r","i","g","i","n"," ","m","a","i","n"," ","&","&"," ","g","i","t"," ","r","e","s","e","t"," ","-","-","h","a","r","d"," ","o","r","i","g","i","n","/","m","a","i","n">> >>
        ELSE <<>>)
    \o (IF do_build
        THEN << <<"e","c","h","o"," ","\"","=","=","="," ","B","u","i","l","d","i","n","g"," ","c","o","n","t","a","i","n","e","r","s"," ","=","=","=","\""," ","&","&"," ","d","o","c","k","e","r"," ","c","o","m","p","o","s","e"," ","b","u","i","l","d"," ","-","-","p","u","l","l"," ">> \o services_arg >>
        ELSE <<>>)
    \o << <<"e","c","h","o"," ","\"","=","=","="," ","D","e","p","l","o","y","i","n","g"," ","c","o","n","t","a","i","n","e","r","s"," ","=","=","=","\""," ","&","&"," ","d","o","c","k","e","r"," ","c","o","m","p","o","s","e"," ","u","p"," ","-","d"," ","-","-","r","e","m","o","v","e","-","o","r","p","h","a","n","s"," ">> \o services_arg,
          <<"e","c","h","o"," ","\"","=","=","="," ","C","o","n","t","a","i","n","e","r"," ","S","t","a","t","u","s"," ","=","=","=","\""," ","&","&"," ","d","o","c","k","e","r"," ","c","o","m","p","o","s","e"," ","p","s">>,
          <<"e","c","h","o"," ","\"","=","=","="," ","D","E","P","L","O","Y"," ","C","O","M","P","L","E","T","E"," ","=","=","=","\"">> >>
deploy_command(steps, safe_log_file) ==
    <<"n","o","h","u","p"," ","b","a","s","h"," ","-","c"," ","'">> \o str_join(<<" ","&","&"," ">>, steps) \o <<"'"," ",">"," ">> \o safe_log_file \o <<" ","2",">","&","1"," ","&">>

\* start_background_deploy from "result = agent.transport.execute(cmd,
\* skip_validation=True)" on.
deploy_executed(deploy_id, log_file, cmd, ran) ==
    IF ~ran.returned[1].success
    THEN [result |-> DeployResult(FALSE, <<>>, <<>>, <<"F","a","i","l","e","d"," ","t","o"," ","s","t","a","r","t",":"," ">> \o ran.returned[1].stderr),
          executed |-> <<cmd>>]
    ELSE [result |-> DeployResult(TRUE, deploy_id, log_file, <<>>), executed |-> <<cmd>>]
deploy_named(config, project_path, services, do_build, do_pull, deploy_id, log_file, out) ==
    deploy_executed(deploy_id, log_file,
        deploy_command(deploy_steps(shlex_quote(project_path),
                                    str_join(<<" ">>, [i \in 1..Len(services) |-> shlex_quote(services[i])]),
                                    do_build, do_pull),
                       shlex_quote(log_file)),
        execute(config,
            deploy_command(deploy_steps(shlex_quote(project_path),
                                        str_join(<<" ">>, [i \in 1..Len(services) |-> shlex_quote(services[i])]),
                                        do_build, do_pull),
                           shlex_quote(log_file)),
            0, TRUE, out))

\* start_background_deploy without the check of the project path's characters.
start_background_deploy_any_path(config, project_path, services, do_build, do_pull, now_, out) ==
    IF contains(project_path, <<".",".">>)
    THEN [result |-> DeployResult(FALSE, <<>>, <<>>, <<"P","a","t","h"," ","t","r","a","v","e","r","s","a","l"," ","n","o","t"," ","a","l","l","o","w","e","d">>), executed |-> <<>>]
    ELSE IF invalid_service(services) # <<>>
    THEN [result |-> DeployResult(FALSE, <<>>, <<>>, invalid_service(services)[1]), executed |-> <<>>]
    ELSE deploy_named(config, project_path, services, do_build, do_pull,
                      <<"d","e","p","l","o","y","-">> \o int_str(now_), <<"/","t","m","p","/","d","e","p","l","o","y","-">> \o int_str(now_) \o <<".","l","o","g">>, out)
\* start_background_deploy(agent, project_path, services, do_build, do_pull)
\* on an agent whose transport has this config, when time.time() is now_ and
\* the process of the command does out: the DeployResult and the commands
\* handed to the transport.
start_background_deploy(config, project_path, services, do_build, do_pull, now_, out) ==
    IF ~re_match(PROJECT_PATH, project_path, FALSE)
    THEN [result |-> DeployResult(FALSE, <<>>, <<>>, <<"I","n","v","a","l","i","d"," ","p","r","o","j","e","c","t"," ","p","a","t","h",":"," ">> \o project_path),
          executed |-> <<>>]
    ELSE IF contains(project_path, <<".",".">>)
    THEN [result |-> DeployResult(FALSE, <<>>, <<>>, <<"P","a","t","h"," ","t","r","a","v","e","r","s","a","l"," ","n","o","t"," ","a","l","l","o","w","e","d">>), executed |-> <<>>]
    ELSE IF invalid_service(services) # <<>>
    THEN [result |-> DeployResult(FALSE, <<>>, <<>>, invalid_service(services)[1]), executed |-> <<>>]
    ELSE deploy_named(config, project_path, services, do_build, do_pull,
                      <<"d","e","p","l","o","y","-">> \o int_str(now_), <<"/","t","m","p","/","d","e","p","l","o","y","-">> \o int_str(now_) \o <<".","l","o","g">>, out)

\* The server a deploy runs on: the log files under /tmp (the lines written
\* to each) and the deploy processes alive, both by deploy id.  What the
\* three commands of get_deploy_status print there.
COMPLETE_MARKER == <<"=","=","="," ","D","E","P","L","O","Y"," ","C","O","M","P","L","E","T","E"," ","=","=","=">>
RECURSIVE file_text(_)
file_text(lines) == IF lines = <<>> THEN <<>> ELSE Head(lines) \o <<"\n">> \o file_text(Tail(lines))
pgrep_prints(alive, deploy_id) ==
    IF deploy_id \in alive THEN <<"R","U","N","N","I","N","G","\n">> ELSE <<"N","O","T","_","R","U","N","N","I","N","G","\n">>
ls_prints(logs, deploy_id) ==
    IF dict_has(logs, deploy_id)
    THEN <<"-","r","w","-","r","-","-","r","-","-"," ","1"," ","u","b","u","n","t","u"," ","u","b","u","n","t","u"," ","6","4"," ","J","a","n"," ","1","5"," ","1","0",":","3","0"," ","/","t","m","p","/">> \o deploy_id \o <<".","l","o","g","\n">>
    ELSE <<"F","i","l","e"," ","n","o","t"," ","f","o","u","n","d","\n">>
cat_prints(logs, deploy_id) ==
    IF dict_has(logs, deploy_id) THEN file_text(dict_at(logs, deploy_id))
    ELSE <<"[","L","o","g"," ","f","i","l","e"," ","n","o","t"," ","f","o","u","n","d","]","\n">>
\* What subprocess.run does for a command that prints stdout, when the
\* transport works (kind "exit") or not.
Printed(kind, stdout) ==
    [kind |-> kind, rc |-> 0, stdout |-> IF kind = "exit" THEN stdout ELSE <<>>, stderr |-> <<>>,
     msg |-> <<"[","E","r","r","n","o"," ","1","3","]"," ","P","e","r","m","i","s","s","i","o","n"," ","d","e","n","i","e","d">>]

\* process_running = "RUNNING" in (proc_check.stdout or "").
process_running(stdout) == contains(stdout, <<"R","U","N","N","I","N","G">>)

\* "Determine status" with the error text tested before the marker.
determine_status_failed_first(log_content, running) ==
    IF contains(str_lower(log_content), <<"f","a","t","a","l",":">>) \/ contains(str_lower(log_content), <<"e","r","r","o","r",":">>)
    THEN <<"F","A","I","L","E","D">>
    ELSE IF contains(log_content, COMPLETE_MARKER) THEN <<"C","O","M","P","L","E","T","E","D">>
    ELSE IF running THEN <<"R","U","N","N","I","N","G">>
    ELSE IF strip(log_content) # <<>> /\ ~contains(log_content, <<"D","E","P","L","O","Y"," ","C","O","M","P","L","E","T","E">>)
    THEN <<"F","A","I","L","E","D"," ","(","p","r","o","c","e","s","s"," ","d","i","e","d",")">>
    ELSE <<"U","N","K","N","O","W","N">>
\* "Determine status" with the process tested before the log.
determine_status_running_first(log_content, running) ==
    IF running THEN <<"R","U","N","N","I","N","G">>
    ELSE IF contains(log_content, COMPLETE_MARKER) THEN <<"C","O","M","P","L","E","T","E","D">>
    ELSE IF contains(str_lower(log_content), <<"f","a","t","a","l",":">>) \/ contains(str_lower(log_content), <<"e","r","r","o","r",":">>)
    THEN <<"F","A","I","L","E","D">>
    ELSE IF strip(log_content) # <<>> /\ ~contains(log_content, <<"D","E","P","L","O","Y"," ","C","O","M","P","L","E","T","E">>)
    THEN <<"F","A","I","L","E","D"," ","(","p","r","o","c","e","s","s"," ","d","i","e","d",")">>
    ELSE <<"U","N","K","N","O","W","N">>
\* "Determine status" of get_deploy_status.
determine_status(log_content, running) ==
    IF contains(log_content, COMPLETE_MARKER) THEN <<"C","O","M","P","L","E","T","E","D">>
    ELSE IF contains(str_lower(log_content), <<"f","a","t","a","l",":">>) \/ contains(str_lower(log_content), <<"e","r","r","o","r",":">>)
    THEN <<"F","A","I","L","E","D">>
    ELSE IF running THEN <<"R","U","N","N","I","N","G">>
    ELSE IF strip(log_content) # <<>> /\ ~contains(log_content, <<"D","E","P","L","O","Y"," ","C","O","M","P","L","E","T","E">>)
    THEN <<"F","A","I","L","E","D"," ","(","p","r","o","c","e","s","s"," ","d","i","e","d",")">>
    ELSE <<"U","N","K","N","O","W","N">>

\* get_deploy_status(agent, deploy_id), the three commands having returned
\* proc_check, file_info and log_result.
status_read(deploy_id, proc_check, file_info, log_result) ==
    DeployStatus(determine_status(log_result.stdout, process_running(proc_check.stdout)),
                 process_running(proc_check.stdout),
                 <<"/","t","m","p","/">> \o deploy_id \o <<".","l","o","g">>,
                 log_result.stdout,
                 IF file_info.stdout # <<>> THEN strip(file_info.stdout) ELSE <<"n","o","t"," ","f","o","u","n","d">>)
get_deploy_status(config, deploy_id, logs, alive, net) ==
    [status |-> status_read(deploy_id,
        execute(config, <<"p","g","r","e","p"," ","-","f"," ">> \o shlex_quote(deploy_id)
                            \o <<" ",">","/","d","e","v","/","n","u","l","l"," ","2",">","&","1"," ","&","&"," ","e","c","h","o"," ","'","R","U","N","N","I","N","G","'"," ","|","|"," ","e","c","h","o"," ","'","N","O","T","_","R","U","N","N","I","N","G","'">>,
                0, TRUE, Printed(net.proc, pgrep_prints(alive, deploy_id))).returned[1],
        execute(config, <<"l","s"," ","-","l","a"," ">> \o shlex_quote(<<"/","t","m","p","/">> \o deploy_id \o <<".","l","o","g">>)
                            \o <<" ","2",">","/","d","e","v","/","n","u","l","l"," ","|","|"," ","e","c","h","o"," ","'","F","i","l","e"," ","n","o","t"," ","f","o","u","n","d","'">>,
                0, TRUE, Printed(net.ls, ls_prints(logs, deploy_id))).returned[1],
        execute(config, <<"c","a","t"," ">> \o shlex_quote(<<"/","t","m","p","/">> \o deploy_id \o <<".","l","o","g">>)
                            \o <<" ","2",">","/","d","e","v","/","n","u","l","l"," ","|","|"," ","e","c","h","o"," ","'","[","L","o","g"," ","f","i","l","e"," ","n","o","t"," ","f","o","u","n","d","]","'">>,
                0, TRUE, Printed(net.cat, cat_prints(logs, deploy_id))).returned[1]),
     checked |-> IF net.proc = "exit" THEN strip(pgrep_prints(alive, deploy_id)) ELSE <<>>]

\* The inputs: the calls of start_background_deploy, the lines a deploy
\* writes to its log, and whether the transport reaches the server.
StartCall(project_path, services, do_build, do_pull) ==
    [project_path |-> project_path, services |-> services, do_build |-> do_build, do_pull |-> do_pull]
StartCalls ==
    { StartCall(<<"/","s","r","v","/","a","p","p">>, <<>>, TRUE, TRUE),
      StartCall(<<"~","/","d","o","c","k","e","r","-","p","r","o","j","e","c","t">>, << <<"n","g","i","n","x">>, <<"w","e","b","_","1">> >>, FALSE, FALSE),
      StartCall(<<"/","s","r","v","/","a","p","p","\n">>, <<>>, TRUE, FALSE),
      StartCall(<<"/","s","r","v","/",".",".","/","e","t","c">>, <<>>, TRUE, TRUE),
      StartCall(<<"/","s","r","v","/","a","p","p",";","i","d">>, <<>>, TRUE, TRUE),
      StartCall(<<"/","s","r","v","/","m","y"," ","a","p","p">>, <<>>, FALSE, TRUE),
      StartCall(<<"/","s","r","v","/","a","p","p">>, << <<"n","g","i","n","x">>, <<"b","a","d",";","s","v","c">> >>, TRUE, TRUE) }
DeployLines == { <<"=","=","="," ","B","u","i","l","d","i","n","g"," ","c","o","n","t","a","i","n","e","r","s"," ","=","=","=">>, <<"n","p","m"," ","E","R","R","O","R",":"," ","p","e","e","r"," ","d","e","p","e","n","d","e","n","c","y">>, COMPLETE_MARKER }
Nets ==
    { [proc |-> "exit", ls |-> "exit", cat |-> "exit"],
      [proc |-> "TimeoutExpired", ls |-> "exit", cat |-> "exit"],
      [proc |-> "TimeoutExpired", ls |-> "TimeoutExpired", cat |-> "TimeoutExpired"] }
DeployConfigs == {c \in Configs : c.ssh_key = <<>> /\ c.port = DEFAULT_PORT}
MaxStarts == 2
MaxTicks == 1
MaxLogLines == 2

(***************************************************************************)
(* mcp_handlers.py, handle_server_deploy: the deploy so_far step by step over *)
(* the transport.  A run is the texts collected in results, the commands   *)
(* handed to transport.execute, and whether the handler has returned.      *)
(***************************************************************************)
\* arguments.get("project_path") or agent.server_config.compose_path
deploy_project_path(arguments, config) ==
    IF arguments.project_path # <<>> /\ arguments.project_path[1] # <<>>
    THEN arguments.project_path[1] ELSE config.compose_path
\* The basic security check of the path.
path_refused(project_path) ==
    contains(project_path, <<".",".">>) \/ contains(project_path, <<";">>) \/ contains(project_path, <<"|">>)
deploy_services_arg(services) ==
    IF services # <<>> THEN str_join(<<" ">>, [i \in 1..Len(services) |-> shlex_quote(services[i])])
    ELSE <<>>
pull_cmd(project_path) ==
    <<"c","d"," ">> \o project_path \o <<" ","&","&"," ","g","i","t"," ","f","e","t","c","h"," ","o","r","i","g","i","n"," ","m","a","i","n"," ","&","&"," ","g","i","t"," ","r","e","s","e","t"," ","-","-","h","a","r","d"," ","o","r","i","g","i","n","/","m","a","i","n">>
build_cmd(project_path, services_arg) ==
    <<"c","d"," ">> \o project_path \o <<" ","&","&"," ","d","o","c","k","e","r"," ","c","o","m","p","o","s","e"," ","b","u","i","l","d"," ","-","-","p","u","l","l"," ">> \o services_arg
up_cmd(project_path, services_arg) ==
    <<"c","d"," ">> \o project_path \o <<" ","&","&"," ","d","o","c","k","e","r"," ","c","o","m","p","o","s","e"," ","u","p"," ","-","d"," ","-","-","r","e","m","o","v","e","-","o","r","p","h","a","n","s"," ">> \o services_arg
ps_cmd(project_path) ==
    <<"c","d"," ">> \o project_path \o <<" ","&","&"," ","d","o","c","k","e","r"," ","c","o","m","p","o","s","e"," ","p","s"," ","-","-","f","o","r","m","a","t"," ","'","t","a","b","l","e"," ","{","{",".","N","a","m","e","}","}","\\","t","{","{",".","S","t","a","t","u","s","}","}","\\","t","{","{",".","H","e","a","l","t","h","}","}","'">>
BUILD_TIMEOUT == 600
UP_TIMEOUT == 300

\* A step that does not return after a failure.
step_ran_on(so_far, heading, cmd, ran, done, failed) ==
    IF ran.raised
    THEN [so_far EXCEPT !.executed = Append(@, cmd), !.returned = TRUE]
    ELSE IF ran.returned[1].success
    THEN [so_far EXCEPT !.executed = Append(@, cmd),
                     !.results = @ \o <<heading, IF ran.returned[1].stdout # <<>>
                                                 THEN ran.returned[1].stdout ELSE done>>]
    ELSE [so_far EXCEPT !.executed = Append(@, cmd),
                     !.results = @ \o <<heading, failed \o ran.returned[1].stderr>>]
\* results.append(heading), then transport.execute(cmd): on success the
\* output or done is appended, on failure failed and stderr, and the handler
\* returns.
step_ran(so_far, heading, cmd, ran, done, failed) ==
    IF ran.raised
    THEN [so_far EXCEPT !.executed = Append(@, cmd), !.returned = TRUE]
    ELSE IF ran.returned[1].success
    THEN [so_far EXCEPT !.executed = Append(@, cmd),
                     !.results = @ \o <<heading, IF ran.returned[1].stdout # <<>>
                                                 THEN ran.returned[1].stdout ELSE done>>]
    ELSE [so_far EXCEPT !.executed = Append(@, cmd),
                     !.results = @ \o <<heading, failed \o ran.returned[1].stderr>>,
                     !.returned = TRUE]
\* Step 1: Git pull
pull_step(so_far, do_pull, project_path, config, out) ==
    IF so_far.returned \/ ~do_pull THEN so_far
    ELSE step_ran(so_far, <<"=","=","="," ","P","u","l","l","i","n","g"," ","l","a","t","e","s","t"," ","c","h","a","n","g","e","s"," ","=","=","=">>, pull_cmd(project_path),
                  execute(config, pull_cmd(project_path), 0, TRUE, out),
                  <<"G","i","t"," ","p","u","l","l",":"," ","d","o","n","e">>, <<"G","i","t"," ","p","u","l","l"," ","f","a","i","l","e","d",":"," ">>)
\* Step 2: Docker build
build_step(so_far, do_build, project_path, services_arg, config, out) ==
    IF so_far.returned \/ ~do_build THEN so_far
    ELSE step_ran(so_far, <<"\n","=","=","="," ","B","u","i","l","d","i","n","g"," ","c","o","n","t","a","i","n","e","r","s"," ","=","=","=">>, build_cmd(project_path, services_arg),
                  execute(config, build_cmd(project_path, services_arg), BUILD_TIMEOUT, TRUE, out),
                  <<"B","u","i","l","d",":"," ","d","o","n","e">>, <<"B","u","i","l","d"," ","f","a","i","l","e","d",":"," ">>)
\* Step 3: Deploy
up_step(so_far, project_path, services_arg, config, out) ==
    IF so_far.returned THEN so_far
    ELSE step_ran(so_far, <<"\n","=","=","="," ","D","e","p","l","o","y","i","n","g"," ","c","o","n","t","a","i","n","e","r","s"," ","=","=","=">>, up_cmd(project_path, services_arg),
                  execute(config, up_cmd(project_path, services_arg), UP_TIMEOUT, TRUE, out),
                  <<"D","e","p","l","o","y",":"," ","d","o","n","e">>, <<"D","e","p","l","o","y"," ","f","a","i","l","e","d",":"," ">>)
\* Step 4: Show status; a failure of the status command adds nothing.
ps_ran(so_far, cmd, ran) ==
    IF ran.raised
    THEN [so_far EXCEPT !.executed = Append(@, cmd), !.returned = TRUE]
    ELSE IF ran.returned[1].success
    THEN [so_far EXCEPT !.executed = Append(@, cmd),
                     !.results = @ \o << <<"\n","=","=","="," ","C","o","n","t","a","i","n","e","r"," ","S","t","a","t","u","s"," ","=","=","=">>,
                                        IF ran.returned[1].stdout # <<>>
                                        THEN ran.returned[1].stdout ELSE <<"(","n","o"," ","o","u","t","p","u","t",")">> >>]
    ELSE [so_far EXCEPT !.executed = Append(@, cmd), !.results = Append(@, <<"\n","=","=","="," ","C","o","n","t","a","i","n","e","r"," ","S","t","a","t","u","s"," ","=","=","=">>)]
ps_step(so_far, project_path, config, out) ==
    IF so_far.returned THEN so_far
    ELSE ps_ran(so_far, ps_cmd(project_path), execute(config, ps_cmd(project_path), 0, TRUE, out))
\* The four steps one after the other, from "results = []" on.
deploy_run(arguments, project_path, services_arg, config, outs) ==
    ps_step(up_step(build_step(pull_step([results |-> <<>>, executed |-> <<>>, returned |-> FALSE],
                                         arguments.pull, project_path, config, outs.pull),
                               arguments.build, project_path, services_arg, config, outs.build),
                    project_path, services_arg, config, outs.up),
            project_path, config, outs.ps)
deploy_checked(arguments, project_path, got, config, outs) ==
    IF path_refused(project_path)
    THEN Handled(<<>>, <<"I","n","v","a","l","i","d"," ","p","r","o","j","e","c","t"," ","p","a","t","h",":"," ">> \o project_path, got, got.agents, <<>>, <<>>)
    ELSE \* "\n".join(results)
         LET so_far == deploy_run(arguments, project_path, deploy_services_arg(arguments.services),
                               config, outs)
         IN Handled(<<>>, str_join(<<"\n">>, so_far.results), got, got.agents, so_far.executed, <<>>)
deploy_got(arguments, got, outs) ==
    IF got.raised # <<>>
    THEN Handled(got.raised, <<>>, got, got.agents, <<>>, <<>>)
    ELSE deploy_checked(arguments,
                        deploy_project_path(arguments, got.agents[got.agent[1]].server_config),
                        got, got.agents[got.agent[1]].server_config, outs)
\* handle_server_deploy(arguments), when the four commands do outs.
handle_server_deploy(arguments, agent_, agents_, environ, outs) ==
    deploy_got(arguments, get_agent(agent_, agents_, environ), outs)

\* The inputs: the arguments of the tool call and what each command does.
DeployArgument(project_path, services, build, pull) ==
    [project_path |-> project_path, services |-> services, build |-> build, pull |-> pull]
DeployArguments ==
    {DeployArgument(<<>>, <<>>, b, p) : b, p \in BOOLEAN}
    \cup {DeployArgument(<< <<"/","s","r","v","/","a","p","p">> >>, << <<"w","e","b">>, <<"m","y"," ","d","b">> >>, b, p) : b, p \in BOOLEAN}
    \cup {DeployArgument(<< <<"/","s","r","v","/",".",".","/","e","t","c">> >>, <<>>, TRUE, TRUE)}
StepOutcomes == {o \in ExecOutcomes : o.kind = "exit"}
DeployOuts == [pull : StepOutcomes, build : StepOutcomes, up : StepOutcomes, ps : ExecOutcomes]

(***************************************************************************)
(* The state machines.  Each specification runs one component; the         *)
(* variables of the other components stay as they were constructed.        *)
(***************************************************************************)
VARIABLES
    command,    \* the text handed to is_command_allowed
    decision,   \* <<>>, or <<the (allowed, reason) it returned>>
    transport,  \* the ServerConfig of the SSHTransport
    call,       \* the arguments of the execute call
    proc,       \* <<>>, or <<what subprocess.run did in that call>>
    spawned,    \* the argument vectors handed to subprocess.run by that call
    returned,   \* <<>>, or <<the CommandResult execute returned>>
    raised,     \* an exception left execute
    log_call,   \* the service asked for and what docker compose logs answered
    fetched,    \* the entries get_logs returned
    log_out,    \* <<>>, or <<what the caller of get_logs computed from them>>
    report_call,  \* what built the report and from what
    report_out,   \* <<>>, or <<the report handed back, or that the call raised>>
    _ufw_status,  \* the memo of the security checker: <<>> (None) or <<status>>
    sec_out,      \* <<>>, or <<the last sub-check: the results of the commands
                  \* it ran and the findings it returned>>
    _checkers,    \* the checkers the package's SecurityCollector has built
    audits,       \* the check_all calls made on the collector so far
    audit_out,    \* <<>>, or <<the last check_all: which collector, the results
                  \* of the commands it ran, the findings it returned>>
    environ,      \* the environment variables of the process
    _agent,       \* the global of mcp_handlers: <<>> (None) or <<the agent object>>
    agents,       \* the agent objects built so far, each with its ServerConfig
    configured,   \* the services each of them was built with
    from_env_calls,  \* the calls of ServerAgent.from_env so far
    trace,        \* the get_agent calls that returned (the agent each gave) and
                  \* the reset_agent calls, in order
    tool_out,     \* <<>>, or <<the last handle_tool call and what it did>>
    calls,        \* the calls made on the module so far
    tasks,        \* the server_diagnose calls the server received: the step each
                  \* is at, the agent it holds and what it has read through it
    reloads,      \* the reloads served so far
    now,          \* int(time.time()) on the machine that starts the deploys
    deploy_logs,  \* the deploy log files on the server: the lines of each, by deploy id
    deploy_alive, \* the deploy ids whose deploy process is running on the server
    deploys,      \* the start_background_deploy calls so far: what each was
                  \* given and what it did
    polls,        \* the get_deploy_status calls so far: the id asked for, what
                  \* the process check printed and the DeployStatus returned
    deploy_out    \* <<>>, or <<what handle_server_deploy did>>

polVars == <<command, decision>>
exVars == <<transport, call, proc, spawned, returned, raised>>
logVars == <<log_call, fetched, log_out>>
repVars == <<report_call, report_out>>
secVars == <<_ufw_status, sec_out>>
audVars == <<_checkers, audits, audit_out>>
hdlVars == <<environ, _agent, agents, configured, from_env_calls, trace, tool_out, calls>>
rldVars == <<tasks, reloads>>
depVars == <<now, deploy_logs, deploy_alive, deploys, polls, deploy_out>>
vars == <<command, decision, transport, call, proc, spawned, returned, raised,
          log_call, fetched, log_out, report_call, report_out, _ufw_status, sec_out,
          _checkers, audits, audit_out,
          environ, _agent, agents, configured, from_env_calls, trace, tool_out, calls,
          tasks, reloads, now, deploy_logs, deploy_alive, deploys, polls, deploy_out>>

NoCall == [command |-> <<>>, timeout |-> 0, skip_validation |-> FALSE]
NoLogCall == [service |-> <<>>, result |-> <<>>]
IdlePolicy == command = <<>> /\ decision = <<>>
IdleExec ==
    /\ transport = CHOOSE c \in Configs : is_local(c)
    /\ call = NoCall
    /\ proc = <<>> /\ spawned = <<>> /\ returned = <<>> /\ raised = FALSE
IdleLogs == log_call = NoLogCall /\ fetched = <<>> /\ log_out = <<>>
NoReportCall ==
    [op |-> "", services |-> <<>>, include_security |-> FALSE, issues |-> <<>>, observed |-> <<>>]
IdleReport == report_call = NoReportCall /\ report_out = <<>>
IdleSecurity == _ufw_status = <<>> /\ sec_out = <<>>
IdleAudit == _checkers = <<>> /\ audits = 0 /\ audit_out = <<>>
IdleReload == tasks = <<>> /\ reloads = 0
IdleDeploy ==
    /\ now = 1700000000
    /\ deploy_logs = <<>> /\ deploy_alive = {} /\ deploys = <<>> /\ polls = <<>> /\ deploy_out = <<>>
IdleHandlers ==
    /\ environ = CHOOSE e \in Environs : e.SERVER_HOST = <<>>
    /\ _agent = <<>> /\ agents = <<>> /\ configured = <<>> /\ from_env_calls = 0
    /\ trace = <<>> /\ tool_out = <<>> /\ calls = 0

\* ---- the policy, called on its own (as handle_server_exec and the tests do)
InitPolicy == command \in Commands /\ decision = <<>>
IsCommandAllowed ==
    /\ decision = <<>>
    /\ decision' = <<is_command_allowed(command)>>
    /\ UNCHANGED <<command, exVars, logVars, repVars, secVars, audVars, hdlVars, rldVars, depVars>>
NextPolicy == IsCommandAllowed
InitSpecPolicy == InitPolicy /\ IdleExec /\ IdleLogs /\ IdleReport /\ IdleSecurity /\ IdleAudit /\ IdleHandlers /\ IdleReload /\ IdleDeploy
SpecPolicy == InitSpecPolicy /\ [][NextPolicy]_vars

\* ---- one execute call on a transport
InitExec ==
    /\ transport \in Configs
    /\ call \in [command : ExecCommands, timeout : Timeouts, skip_validation : BOOLEAN]
    /\ proc = <<>> /\ spawned = <<>> /\ returned = <<>> /\ raised = FALSE
Execute ==
    /\ returned = <<>> /\ ~raised
    /\ \E out \in ProcOutcomes :
       \E r \in {execute(transport, call.command, call.timeout, call.skip_validation, out)} :
             /\ returned' = r.returned
             /\ spawned' = r.spawned
             /\ raised' = r.raised
             /\ proc' = IF r.spawned = <<>> THEN <<>> ELSE <<out>>
    /\ UNCHANGED <<transport, call, polVars, logVars, repVars, secVars, audVars, hdlVars, rldVars, depVars>>
NextExec == Execute
InitSpecExec == InitExec /\ IdlePolicy /\ IdleLogs /\ IdleReport /\ IdleSecurity /\ IdleAudit /\ IdleHandlers /\ IdleReload /\ IdleDeploy
SpecExec == InitSpecExec /\ [][NextExec]_vars

\* ---- the logs of one service: fetched by get_logs, then analysed
\* (get_service_logs_summary), ranked (get_most_critical) or counted as the
\* service's errors (_collect_all_data)
LogOut(op, got, value) == <<[op |-> op, raised |-> got.raised, value |-> IF got.raised THEN <<>> ELSE value]>>
AnalyzeLogs ==
    /\ log_out = <<>>
    /\ \E service \in LogServices \cup BadServices, result \in LogResults :
       \E got \in {get_logs(service, result)} :
             /\ log_call' = [service |-> service, result |-> result]
             /\ fetched' = got.entries
             /\ log_out' = LogOut("analyze_logs", got, analyze_logs(got.entries))
    /\ UNCHANGED <<polVars, exVars, repVars, secVars, audVars, hdlVars, rldVars, depVars>>
GetMostCritical ==
    /\ log_out = <<>>
    /\ \E service \in LogServices \cup BadServices, result \in LogResults :
       \E got \in {get_logs(service, result)} :
             /\ log_call' = [service |-> service, result |-> result]
             /\ fetched' = got.entries
             /\ log_out' = LogOut("get_most_critical", got, get_most_critical(got.entries))
    /\ UNCHANGED <<polVars, exVars, repVars, secVars, audVars, hdlVars, rldVars, depVars>>
CollectErrors ==
    /\ log_out = <<>>
    /\ \E service \in LogServices \cup BadServices, result \in LogResults :
       \E got \in {get_logs(service, result)} :
             /\ log_call' = [service |-> service, result |-> result]
             /\ fetched' = got.entries
             /\ log_out' = LogOut("_collect_all_data", got, collect_errors(got.entries))
    /\ UNCHANGED <<polVars, exVars, repVars, secVars, audVars, hdlVars, rldVars, depVars>>
\* analyze_entry on one entry of the service's logs.
AnalyzeEntry ==
    /\ log_out = <<>>
    /\ \E entry \in LogEntries :
          /\ log_call' = [service |-> entry.service,
                          result |-> CommandResult(entry.raw, <<>>, 0, <<>>, TRUE)]
          /\ fetched' = <<entry>>
          /\ log_out' = <<[op |-> "analyze_entry", raised |-> FALSE, value |-> analyze_entry_of[entry]]>>
    /\ UNCHANGED <<polVars, exVars, repVars, secVars, audVars, hdlVars, rldVars, depVars>>
NextLogs == AnalyzeLogs \/ GetMostCritical \/ CollectErrors \/ AnalyzeEntry
InitSpecLogs == IdleLogs /\ IdlePolicy /\ IdleExec /\ IdleReport /\ IdleSecurity /\ IdleAudit /\ IdleHandlers /\ IdleReload /\ IdleDeploy
SpecLogs == InitSpecLogs /\ [][NextLogs]_vars

\* ---- a diagnostic report: constructed from services and alerts, made by
\* create_report from the services' statuses, or handed back by diagnose
ReportOut(got) == <<[raised |-> got.raised, report |-> got.report]>>
NewReport ==
    /\ report_out = <<>>
    /\ \E services \in SeqsUpTo(Statuses, MaxServices), alerts \in SeqsUpTo(AnyAlerts, MaxAlerts) :
          /\ report_call' = [op |-> "DiagnosticReport", services |-> services,
                             include_security |-> FALSE, issues |-> <<>>, observed |-> <<>>]
          /\ report_out' = ReportOut([raised |-> FALSE, report |-> <<DiagnosticReport(transport.host, services, alerts)>>])
    /\ UNCHANGED <<polVars, exVars, logVars, secVars, audVars, hdlVars, rldVars, depVars>>
CreateReport ==
    /\ report_out = <<>>
    /\ \E observed \in Observed :
       \E collected \in {_collect_all_data(observed)} :
          /\ ~collected.raised
          /\ report_call' = [op |-> "create_report", services |-> collected.statuses,
                             include_security |-> FALSE, issues |-> <<>>, observed |-> observed]
          /\ report_out' = ReportOut([raised |-> FALSE, report |-> <<create_report(transport.host, collected.statuses)>>])
    /\ UNCHANGED <<polVars, exVars, logVars, secVars, audVars, hdlVars, rldVars, depVars>>
Diagnose ==
    /\ report_out = <<>>
    /\ \E observed \in Observed, include_security \in BOOLEAN, audit \in Audits :
       \E collected \in {_collect_all_data(observed)},
          got \in {diagnose(transport.host, observed, include_security, audit)} :
          /\ report_call' = [op |-> "diagnose", services |-> collected.statuses,
                             include_security |-> include_security,
                             issues |-> IF include_security THEN audit.issues ELSE <<>>,
                             observed |-> observed]
          /\ report_out' = ReportOut(got)
    /\ UNCHANGED <<polVars, exVars, logVars, secVars, audVars, hdlVars, rldVars, depVars>>
\* handle_server_diagnose: agent.diagnose(), and the answer rendered from the
\* report it returned.
AnswerDiagnose ==
    /\ report_out = <<>>
    /\ \E observed \in Observed, audit \in Audits :
       \E collected \in {_collect_all_data(observed)},
          got \in {diagnose(transport.host, observed, TRUE, audit)} :
          /\ report_call' = [op |-> "server_diagnose", services |-> collected.statuses,
                             include_security |-> TRUE, issues |-> audit.issues,
                             observed |-> observed]
          /\ report_out' = <<[raised |-> got.raised, report |-> got.report,
                              answer |-> IF got.raised THEN <<>> ELSE render_report(got.report[1])]>>
    /\ UNCHANGED <<polVars, exVars, logVars, secVars, audVars, hdlVars, rldVars, depVars>>
NextReport == NewReport \/ CreateReport \/ Diagnose \/ AnswerDiagnose
InitSpecReport == IdleReport /\ IdlePolicy /\ IdleExec /\ IdleLogs /\ IdleSecurity /\ IdleAudit /\ IdleHandlers /\ IdleReload /\ IdleDeploy
SpecReport == InitSpecReport /\ [][NextReport]_vars

\* ---- the sub-checks of one security checker on a transport; the checker
\* keeps its firewall status from one sub-check to the next
InitSecurity ==
    /\ transport \in Configs
    /\ call = NoCall
    /\ proc = <<>> /\ spawned = <<>> /\ returned = <<>> /\ raised = FALSE
    /\ IdleSecurity
SecOut(check, got) ==
    <<[check |-> check, ran |-> got.ran, raised |-> got.raised, issues |-> got.issues]>>
CheckFirewall ==
    /\ \E out \in Ran(UfwOutputs) :
       \E got \in {check_firewall(_ufw_status, transport, out)} :
          /\ _ufw_status' = got.memo
          /\ sec_out' = SecOut("check_firewall", got)
    /\ UNCHANGED <<polVars, exVars, logVars, repVars, audVars, hdlVars, rldVars, depVars>>
CheckExposedPorts ==
    /\ \E out_ufw \in Ran(UfwOutputs), out_ports \in Ran(PortsOutputs) :
       \E got \in {check_exposed_ports(_ufw_status, transport, out_ufw, out_ports)} :
          /\ _ufw_status' = got.memo
          /\ sec_out' = SecOut("check_exposed_ports", got)
    /\ UNCHANGED <<polVars, exVars, logVars, repVars, audVars, hdlVars, rldVars, depVars>>
CheckAuthConfiguration ==
    /\ \E out \in Ran(EnvOutputs) :
       \E got \in {check_auth_configuration(transport, out)} :
          /\ sec_out' = SecOut("check_auth_configuration", got)
    /\ UNCHANGED <<polVars, exVars, logVars, repVars, _ufw_status, audVars, hdlVars, rldVars, depVars>>
NextSecurity == CheckFirewall \/ CheckExposedPorts \/ CheckAuthConfiguration
InitSpecSecurity == InitSecurity /\ IdlePolicy /\ IdleLogs /\ IdleReport /\ IdleAudit /\ IdleHandlers /\ IdleReload /\ IdleDeploy
SpecSecurity == InitSpecSecurity /\ [][NextSecurity]_vars

\* ---- the audits of one agent's security collector: check_all of the
\* package on its checkers, check_all of the module security.py on its own
\* firewall status
InitAudit ==
    /\ transport \in Configs
    /\ call = NoCall
    /\ proc = <<>> /\ spawned = <<>> /\ returned = <<>> /\ raised = FALSE
    /\ IdleSecurity /\ IdleAudit
AuditOut(collector, memo_before, got) ==
    <<[collector |-> collector, memo_before |-> memo_before, ran |-> got.ran,
       raised |-> got.raised, issues |-> got.issues, found |-> got.found]>>
CheckAll ==
    /\ audits < MaxAudits
    /\ \E in \in AuditInputs :
       \E got \in {check_all(_checkers, transport, in)} :
          /\ _checkers' = got._checkers
          /\ audit_out' = AuditOut("security/__init__.py", <<>>, got)
    /\ audits' = audits + 1
    /\ UNCHANGED <<polVars, exVars, logVars, repVars, secVars, hdlVars, rldVars, depVars>>
ModuleCheckAll ==
    /\ audits < MaxAudits
    /\ \E in \in AuditInputs :
       \E got \in {module_check_all(_ufw_status, transport, in)} :
          /\ _ufw_status' = got.memo
          /\ audit_out' = AuditOut("security.py", _ufw_status, got)
    /\ audits' = audits + 1
    /\ UNCHANGED <<polVars, exVars, logVars, repVars, sec_out, _checkers, hdlVars, rldVars, depVars>>
NextAudit == CheckAll \/ ModuleCheckAll
InitSpecAudit == InitAudit /\ IdlePolicy /\ IdleLogs /\ IdleReport /\ IdleHandlers /\ IdleReload /\ IdleDeploy
SpecAudit == InitSpecAudit /\ [][NextAudit]_vars

\* ---- the module mcp_handlers of one process: get_agent, reset_agent and
\* handle_tool called one after the other, in an environment that may be
\* edited between two calls
InitHandlers ==
    /\ environ \in Environs
    /\ _agent = <<>> /\ agents = <<>> /\ configured = <<>> /\ from_env_calls = 0
    /\ trace = <<>> /\ tool_out = <<>> /\ calls = 0
\* The services of the agents built by a call, added to those known.
Configured(agents_) ==
    configured \o [i \in 1..(Len(agents_) - Len(configured)) |->
                      agents_[Len(configured) + i].server_config.services]
Traced(agent_) == IF agent_ = <<>> THEN trace ELSE Append(trace, agent_)
SetEnviron ==
    /\ \E e \in Environs : e # environ /\ environ' = e
    /\ UNCHANGED <<polVars, exVars, logVars, repVars, secVars, audVars, depVars, rldVars,
                   _agent, agents, configured, from_env_calls, trace, tool_out, calls>>
GetAgent ==
    /\ calls < MaxCalls
    /\ calls' = calls + 1
    /\ \E got \in {get_agent(_agent, agents, environ)} :
          /\ _agent' = got._agent
          /\ agents' = got.agents
          /\ configured' = Configured(got.agents)
          /\ from_env_calls' = from_env_calls + got.from_env
          /\ trace' = Traced(got.agent)
    /\ UNCHANGED <<polVars, exVars, logVars, repVars, secVars, audVars, depVars, rldVars, environ, tool_out>>
ResetAgent ==
    /\ calls < MaxCalls
    /\ calls' = calls + 1
    /\ _agent' = reset_agent(_agent)
    /\ trace' = Append(trace, <<>>)
    /\ UNCHANGED <<polVars, exVars, logVars, repVars, secVars, audVars, depVars, rldVars,
                   environ, agents, configured, from_env_calls, tool_out>>
HandleTool ==
    /\ calls < MaxCalls
    /\ calls' = calls + 1
    /\ \E c \in ToolCalls :
       \E did \in {handle_tool(c.name, c.arguments, _agent, agents, environ, c.in)} :
          /\ _agent' = did._agent
          /\ agents' = did.agents
          /\ configured' = Configured(did.agents)
          /\ from_env_calls' = from_env_calls + did.from_env
          /\ trace' = Traced(did.agent)
          /\ tool_out' = <<[name |-> c.name, arguments |-> c.arguments, raised |-> did.raised,
                            result |-> did.result, handler_ran |-> did.handler_ran,
                            handler_raised |-> did.handler_raised, agent |-> did.agent,
                            executed |-> did.executed, diagnosed |-> did.diagnosed]>>
    /\ UNCHANGED <<polVars, exVars, logVars, repVars, secVars, audVars, depVars, rldVars, environ>>
\* ---- handle_server_deploy called on the module, one call after the other
HandleServerDeploy ==
    /\ calls < MaxCalls
    /\ calls' = calls + 1
    /\ \E arguments \in DeployArguments, outs \in DeployOuts :
       \E did \in {handle_server_deploy(arguments, _agent, agents, environ, outs)} :
          /\ _agent' = did._agent
          /\ agents' = did.agents
          /\ configured' = Configured(did.agents)
          /\ from_env_calls' = from_env_calls + did.from_env
          /\ trace' = Traced(did.agent)
          /\ deploy_out' = <<[arguments |-> arguments, outs |-> outs, raised |-> did.raised,
                              result |-> did.result, executed |-> did.executed]>>
    /\ UNCHANGED <<polVars, exVars, logVars, repVars, secVars, audVars, rldVars, environ, tool_out,
                   now, deploy_logs, deploy_alive, deploys, polls>>
NextHandlers == SetEnviron \/ GetAgent \/ ResetAgent \/ HandleTool
InitSpecHandlers ==
    InitHandlers /\ IdlePolicy /\ IdleExec /\ IdleLogs /\ IdleReport /\ IdleSecurity /\ IdleAudit /\ IdleReload /\ IdleDeploy
SpecHandlers == InitSpecHandlers /\ [][NextHandlers]_vars
NextDeployHandler == HandleServerDeploy
InitSpecDeployHandler ==
    InitHandlers /\ IdlePolicy /\ IdleExec /\ IdleLogs /\ IdleReport /\ IdleSecurity /\ IdleAudit /\ IdleReload /\ IdleDeploy
SpecDeployHandler == InitSpecDeployHandler /\ [][NextDeployHandler]_vars

(***************************************************************************)
(* The server: tool calls and reloads on one event loop (SpecReload).      *)
(***************************************************************************)
Started(t) == call_tool(tasks, t) /\ t \in DOMAIN tasks
\* A server_diagnose call arrives.
Receive ==
    /\ Len(tasks) < MaxTasks
    /\ \E a \in DiagnoseArguments : tasks' = Append(tasks, Task(a, reloads))
    /\ UNCHANGED <<polVars, exVars, logVars, repVars, secVars, audVars, depVars, hdlVars, reloads>>
\* handle_server_diagnose: "agent = get_agent()".
RunGetAgent ==
    /\ \E t \in DOMAIN tasks :
       \E got \in {get_agent(_agent, agents, environ)} :
          /\ Started(t) /\ tasks[t].pc = "new"
          /\ _agent' = got._agent
          /\ agents' = got.agents
          /\ configured' = Configured(got.agents)
          /\ from_env_calls' = from_env_calls + got.from_env
          /\ tasks' = [tasks EXCEPT ![t] =
                [@ EXCEPT !.pc = IF got.raised # <<>> THEN "done" ELSE "got",
                          !.raised = got.raised, !.agent = got.agent, !.started = <<reloads>>,
                          !.began = IF got.raised # <<>> THEN <<>>
                                    ELSE <<got.agents[got.agent[1]].server_config>>]]
    /\ UNCHANGED <<polVars, exVars, logVars, repVars, secVars, audVars, depVars,
                   environ, trace, tool_out, calls, reloads>>
\* handle_server_diagnose: the services of the arguments are written to the
\* agent's configuration.
RunOverride ==
    /\ \E t \in DOMAIN tasks :
          /\ Started(t) /\ tasks[t].pc = "got"
          /\ agents' = override_services(tasks[t].arguments, agents, tasks[t].agent[1])
          /\ tasks' = [tasks EXCEPT ![t].pc = "overridden"]
    /\ UNCHANGED <<polVars, exVars, logVars, repVars, secVars, audVars, depVars,
                   environ, _agent, configured, from_env_calls, trace, tool_out, calls, reloads>>
\* agent.diagnose(): the services to collect.
RunTarget ==
    /\ \E t \in DOMAIN tasks :
          /\ Started(t) /\ tasks[t].pc = "overridden"
          /\ tasks' = [tasks EXCEPT ![t] =
                [@ EXCEPT !.pc = "targeted",
                          !.target_services =
                              <<target_services(<<>>, agents[tasks[t].agent[1]].server_config)>>]]
    /\ UNCHANGED <<polVars, exVars, logVars, repVars, secVars, audVars, depVars, hdlVars, reloads>>
\* _collect_all_data: the commands of the collectors go through the transport.
RunCollect ==
    /\ \E t \in DOMAIN tasks :
          /\ Started(t) /\ tasks[t].pc = "targeted"
          /\ tasks' = [tasks EXCEPT ![t] =
                [@ EXCEPT !.pc = "collected",
                          !.collected = <<transport_reads(agents[tasks[t].agent[1]].server_config)>>]]
    /\ UNCHANGED <<polVars, exVars, logVars, repVars, secVars, audVars, depVars, hdlVars, reloads>>
\* create_report(server=self.server_config.host, ...), and the call returns.
RunReport ==
    /\ \E t \in DOMAIN tasks :
          /\ Started(t) /\ tasks[t].pc = "collected"
          /\ tasks' = [tasks EXCEPT ![t] =
                [@ EXCEPT !.pc = "done",
                          !.server = <<agents[tasks[t].agent[1]].server_config.host>>]]
    /\ UNCHANGED <<polVars, exVars, logVars, repVars, secVars, audVars, depVars, hdlVars, reloads>>
\* POST /reload: reset_agent().
Reload ==
    /\ reloads < MaxReloads
    /\ call_tool(tasks, 0)
    /\ _agent' = reset_agent(_agent)
    /\ reloads' = reloads + 1
    /\ UNCHANGED <<polVars, exVars, logVars, repVars, secVars, audVars, depVars,
                   environ, agents, configured, from_env_calls, trace, tool_out, calls, tasks>>
NextReload ==
    SetEnviron \/ Receive \/ RunGetAgent \/ RunOverride \/ RunTarget \/ RunCollect \/ RunReport \/ Reload
InitSpecReload ==
    /\ environ \in Environs
    /\ _agent = <<>> /\ agents = <<>> /\ configured = <<>> /\ from_env_calls = 0
    /\ trace = <<>> /\ tool_out = <<>> /\ calls = 0
    /\ IdleReload /\ IdlePolicy /\ IdleExec /\ IdleLogs /\ IdleReport /\ IdleSecurity /\ IdleAudit /\ IdleDeploy
SpecReload == InitSpecReload /\ [][NextReload]_vars

\* ---- _parse_logs on the output of docker compose logs (SpecParse)
ParseLogs ==
    /\ log_out = <<>>
    /\ \E service \in LogServices, ls \in Texts(MaxLines) :
       \E entries \in {parse_log_text(join_lines(ls), service)} :
             /\ log_call' = [service |-> service,
                             result |-> CommandResult(join_lines(ls), <<>>, 0, <<>>, TRUE)]
             /\ fetched' = entries
             /\ log_out' = <<[op |-> "_parse_logs", raised |-> FALSE, value |-> entries]>>
    /\ UNCHANGED <<polVars, exVars, repVars, secVars, audVars, hdlVars, rldVars, depVars>>
NextParse == ParseLogs
SpecParse == InitSpecLogs /\ [][NextParse]_vars

\* ---- start_background_deploy called on one agent as time passes
\* (SpecDeployStart).  The shell that runs a started command opens the log
\* file anew and the deploy process begins.
InitDeploy ==
    /\ transport \in DeployConfigs
    /\ call = NoCall
    /\ proc = <<>> /\ spawned = <<>> /\ returned = <<>> /\ raised = FALSE
    /\ IdleDeploy
StartBackgroundDeploy ==
    /\ Len(deploys) < MaxStarts
    /\ \E c \in StartCalls, kind \in {"exit", "TimeoutExpired"} :
       \E got \in {start_background_deploy(transport, c.project_path, c.services, c.do_build, c.do_pull,
                                           now, Printed(kind, <<>>))} :
          /\ deploys' = Append(deploys, [project_path |-> c.project_path, services |-> c.services,
                                         at |-> now, result |-> got.result, executed |-> got.executed])
          /\ deploy_logs' = IF got.result.success THEN dict_set(deploy_logs, got.result.deploy_id, <<>>)
                            ELSE deploy_logs
          /\ deploy_alive' = IF got.result.success THEN deploy_alive \cup {got.result.deploy_id}
                             ELSE deploy_alive
    /\ UNCHANGED <<polVars, exVars, logVars, repVars, secVars, audVars, hdlVars, rldVars,
                   now, polls, deploy_out>>
\* A second passes.
Tick ==
    /\ now < 1700000000 + MaxTicks
    /\ now' = now + 1
    /\ UNCHANGED <<polVars, exVars, logVars, repVars, secVars, audVars, hdlVars, rldVars,
                   deploy_logs, deploy_alive, deploys, polls, deploy_out>>
NextDeployStart == StartBackgroundDeploy \/ Tick
InitSpecDeployStart ==
    InitDeploy /\ IdlePolicy /\ IdleLogs /\ IdleReport /\ IdleSecurity /\ IdleAudit /\ IdleHandlers /\ IdleReload
SpecDeployStart == InitSpecDeployStart /\ [][NextDeployStart]_vars

\* ---- one deploy, started and running, written to its log by the deploy
\* process and polled with get_deploy_status (SpecDeployPoll); polls keeps the
\* last two polls
InitDeployPoll ==
    /\ transport \in DeployConfigs
    /\ call = NoCall
    /\ proc = <<>> /\ spawned = <<>> /\ returned = <<>> /\ raised = FALSE
    /\ now = 1700000000
    /\ \E got \in {start_background_deploy(transport, <<"/","s","r","v","/","a","p","p">>, <<>>, TRUE, TRUE, now,
                                            Printed("exit", <<>>))} :
          /\ deploys = <<[project_path |-> <<"/","s","r","v","/","a","p","p">>, services |-> <<>>, at |-> now,
                          result |-> got.result, executed |-> got.executed]>>
          /\ deploy_logs = dict_set(<<>>, got.result.deploy_id, <<>>)
          /\ deploy_alive = {got.result.deploy_id}
    /\ polls = <<>> /\ deploy_out = <<>>
\* The running deploy writes a line to its log.
DeployWrites ==
    /\ \E id \in deploy_alive, line \in DeployLines :
          /\ Len(dict_at(deploy_logs, id)) < MaxLogLines
          /\ deploy_logs' = dict_set(deploy_logs, id, Append(dict_at(deploy_logs, id), line))
    /\ UNCHANGED <<polVars, exVars, logVars, repVars, secVars, audVars, hdlVars, rldVars,
                   now, deploy_alive, deploys, polls, deploy_out>>
\* The deploy process ends.
DeployEnds ==
    /\ \E id \in deploy_alive : deploy_alive' = deploy_alive \ {id}
    /\ UNCHANGED <<polVars, exVars, logVars, repVars, secVars, audVars, hdlVars, rldVars,
                   now, deploy_logs, deploys, polls, deploy_out>>
\* One get_deploy_status call for the deploy.
GetDeployStatus ==
    /\ \E i \in 1..Len(deploy_logs), net \in Nets :
       \E got \in {get_deploy_status(transport, deploy_logs[i].key, deploy_logs, deploy_alive, net)} :
          polls' = last_n(polls, 1)
                     \o <<[deploy_id |-> deploy_logs[i].key, checked |-> got.checked,
                           status |-> got.status, read |-> net.cat = "exit",
                           written |-> cat_prints(deploy_logs, deploy_logs[i].key)]>>
    /\ UNCHANGED <<polVars, exVars, logVars, repVars, secVars, audVars, hdlVars, rldVars,
                   now, deploy_logs, deploy_alive, deploys, deploy_out>>
NextDeployPoll == DeployWrites \/ DeployEnds \/ GetDeployStatus
InitSpecDeployPoll ==
    InitDeployPoll /\ IdlePolicy /\ IdleLogs /\ IdleReport /\ IdleSecurity /\ IdleAudit /\ IdleHandlers /\ IdleReload
SpecDeployPoll == InitSpecDeployPoll /\ [][NextDeployPoll]_vars

(***************************************************************************)
(* Claims about the command policy (SpecPolicy).                           *)
(***************************************************************************)
MatchesBlocked(c) ==
    \E k \in 1..Len(BLOCKED_PATTERNS) : re_search(BLOCKED_PATTERNS[k], c, TRUE)
MatchesAllowed(c) ==
    \E k \in 1..Len(ALLOWED_COMMANDS) : re_match(ALLOWED_COMMANDS[k], c, FALSE)

\* C1: a command that a blocked pattern matches (as the policy tests it, on
\* the command without its surrounding whitespace) is answered allowed=false,
\* whether or not an allowed pattern matches it too.
C1_BlockedTakesPrecedence ==
    (decision # <<>> /\ MatchesBlocked(strip(command))) => ~decision[1].allowed
\* A decided command that both lists match, such as "docker ps ; rm -rf /".
C1_Witness ==
    /\ decision # <<>>
    /\ MatchesBlocked(strip(command)) /\ MatchesAllowed(strip(command))
    /\ ~decision[1].allowed

\* C2: allowed=true is answered only for a command that, stripped, matches an
\* allowed pattern and no blocked one; a command that no pattern of either
\* list matches, the empty one included, is rejected as not in the allowlist.
C2_ClosedWorldAllowlist ==
    decision # <<>> =>
        /\ decision[1].allowed =>
              (MatchesAllowed(strip(command)) /\ ~MatchesBlocked(strip(command)))
        /\ (~MatchesAllowed(strip(command)) /\ ~MatchesBlocked(strip(command))) =>
              /\ ~decision[1].allowed
              /\ decision[1].reason = REASON_NOT_LISTED
              /\ contains(str_lower(decision[1].reason), <<"n","o","t"," ","i","n"," ","a","l","l","o","w","l","i","s","t">>)
\* A command of whitespace only, decided and rejected as not in the allowlist.
C2_Witness ==
    /\ decision # <<>>
    /\ command # <<>> /\ strip(command) = <<>>
    /\ ~decision[1].allowed /\ decision[1].reason = REASON_NOT_LISTED

(***************************************************************************)
(* Claims about SSHTransport.execute (SpecExec).                           *)
(***************************************************************************)
Enforced == is_local(transport) /\ ~call.skip_validation
Finished == returned # <<>> \/ raised

\* C3: on a local transport with validation not skipped, a command the policy
\* rejects is answered with success=false, return_code=-1 and the reason in
\* stderr, and no subprocess is started; a subprocess is started for such a
\* call only when the policy accepted the command.
C3_LocalRejectionStartsNothing ==
    (Finished /\ Enforced) =>
        \E v \in {is_command_allowed(call.command)} :
            /\ ~v.allowed =>
                  /\ returned # <<>>
                  /\ ~returned[1].success
                  /\ returned[1].return_code = -1
                  /\ contains(returned[1].stderr, v.reason)
                  /\ spawned = <<>>
            /\ spawned # <<>> => v.allowed
\* A local, validated call of a blocked command that came back rejected.
C3_Witness ==
    /\ Enforced /\ returned # <<>>
    /\ spawned = <<>>
    /\ ~returned[1].success /\ returned[1].return_code = -1
    /\ contains(returned[1].stderr, REASON_BLOCKED)

\* C4: execute never raises: whatever subprocess.run does, a CommandResult
\* comes back; an exception of any kind gives success=false and
\* return_code=-1, and a process that ran to its end gives success = (exit
\* code = 0) with its stdout and stderr kept (stripped of surrounding
\* whitespace), also when the exit code is not zero.
C4_ExecuteNeverRaises ==
    /\ ~raised
    /\ spawned # <<>> => (returned # <<>> /\ proc # <<>>)
    /\ (returned # <<>> /\ proc # <<>>) =>
          IF proc[1].kind = "exit"
          THEN /\ returned[1].success = (proc[1].rc = 0)
               /\ returned[1].return_code = proc[1].rc
               /\ returned[1].stdout = strip(proc[1].stdout)
               /\ returned[1].stderr = strip(proc[1].stderr)
          ELSE /\ ~returned[1].success
               /\ returned[1].return_code = -1
\* An exception that is neither a timeout nor a missing binary, returned as
\* a failed CommandResult that carries its message.
C4_Witness ==
    /\ proc # <<>> /\ proc[1].kind = "PermissionError"
    /\ returned # <<>> /\ ~returned[1].success /\ returned[1].return_code = -1
    /\ returned[1].stderr = proc[1].msg

(***************************************************************************)
(* Claims about the log analysis (SpecLogs).                               *)
(***************************************************************************)
\* The lines that a scanner-noise signature matches, and those that an
\* unscoped catalog pattern matches.
NoiseLines ==
    {l \in RawLines : \E k \in 1..Len(BOT_SCANNER_PATHS) : re_search(BOT_SCANNER_PATHS[k], l, TRUE)}
ErrorPatternLines ==
    {l \in RawLines : \E k \in 1..Len(PATTERNS) :
        PATTERNS[k].services = <<>> /\ re_search(re_compile[k], l, TRUE)}
IsNoise(entry) == entry.raw \in NoiseLines
WithoutNoise(entries) == SelectSeq(entries, LAMBDA e : ~IsNoise(e))
Analyzed == log_out # <<>> /\ log_out[1].op = "analyze_logs" /\ ~log_out[1].raised
Ranked == log_out # <<>> /\ log_out[1].op = "get_most_critical" /\ ~log_out[1].raised
Collected == log_out # <<>> /\ log_out[1].op = "_collect_all_data" /\ ~log_out[1].raised

\* C5: an entry whose raw line matches a scanner-noise signature adds nothing
\* to the pattern counts, samples and category tallies of analyze_logs (they
\* are those of the entries without the noise, and no sample is noise), and it
\* is neither counted in error_count nor kept in recent_errors, whatever
\* error pattern or level the line carries.
C5_NoiseExcludedBeforeCounting ==
    /\ Analyzed =>
          /\ \A k \in 1..Len(log_out[1].value.patterns_matched) :
                \A j \in 1..Len(log_out[1].value.patterns_matched[k].sample_entries) :
                    ~IsNoise(log_out[1].value.patterns_matched[k].sample_entries[j])
          /\ log_out[1].value.patterns_matched = analyze_logs(WithoutNoise(fetched)).patterns_matched
          /\ log_out[1].value.by_category = analyze_logs(WithoutNoise(fetched)).by_category
          /\ log_out[1].value.errors_found = analyze_logs(WithoutNoise(fetched)).errors_found
    /\ Collected =>
          /\ log_out[1].value.error_count = collect_errors(WithoutNoise(fetched)).error_count
          /\ log_out[1].value.error_count <= Len(WithoutNoise(fetched))
          /\ \A j \in 1..Len(log_out[1].value.recent_errors) :
                ~IsNoise(log_out[1].value.recent_errors[j])
\* Logs were analysed that hold a noise line which an error pattern matches
\* and whose level is ERROR, next to a line that is counted.
C5_Witness ==
    /\ Analyzed
    /\ log_out[1].value.errors_found > 0
    /\ \E i \in 1..Len(fetched) :
          /\ IsNoise(fetched[i])
          /\ fetched[i].raw \in ErrorPatternLines
          /\ fetched[i].level \in ERROR_LEVELS

\* The catalog patterns that apply to an entry and match it.
MatchingPatterns ==
    [e \in LogEntries |->
        {k \in 1..Len(PATTERNS) :
            /\ PATTERNS[k].services = <<>> \/ InSeq(e.service, PATTERNS[k].services)
            /\ re_search(re_compile[k], e.raw, TRUE)}]
HitsOf(k, entries) == SelectSeq(entries, LAMBDA e : ~IsNoise(e) /\ k \in MatchingPatterns[e])
RowsOf(k, analysis) ==
    {r \in 1..Len(analysis.patterns_matched) : analysis.patterns_matched[r].pattern = PATTERNS[k]}
FirstN(xs, n) == SubSeq(xs, 1, IF Len(xs) < n THEN Len(xs) ELSE n)

\* C6: analyze_logs reports each pattern that some non-noise entry matches
\* exactly once, with a count equal to the number of non-noise entries that
\* match it and with the first min(count, 3) of those entries, in input
\* order, as its samples; a pattern that nothing matches is not reported.
C6_CountsAndFirstThreeSamples ==
    Analyzed =>
        /\ log_out[1].value.total_entries = Len(fetched)
        /\ \A k \in 1..Len(PATTERNS) :
              IF HitsOf(k, fetched) = <<>> THEN RowsOf(k, log_out[1].value) = {}
              ELSE /\ Cardinality(RowsOf(k, log_out[1].value)) = 1
                   /\ \A r \in RowsOf(k, log_out[1].value) :
                         /\ log_out[1].value.patterns_matched[r].count = Len(HitsOf(k, fetched))
                         /\ log_out[1].value.patterns_matched[r].sample_entries
                               = FirstN(HitsOf(k, fetched), 3)
\* Four entries matched one pattern, the first of them a different line from
\* the last: the count is 4 and three samples are kept.
C6_Witness ==
    /\ Analyzed
    /\ \E r \in 1..Len(log_out[1].value.patterns_matched) :
          /\ log_out[1].value.patterns_matched[r].count = 4
          /\ Len(log_out[1].value.patterns_matched[r].sample_entries) = 3
          /\ fetched[1] # fetched[4]

Severity == [l \in AlertLevel |->
                CASE l = "critical" -> 0 [] l = "error" -> 1 [] l = "warning" -> 2 [] l = "info" -> 3]
\* Row k is a top row: no row is more severe, and no row of its level has a
\* higher count.
IsTop(rows, k) ==
    \A j \in 1..Len(rows) :
        /\ Severity[rows[j].pattern.level] >= Severity[rows[k].pattern.level]
        /\ rows[j].pattern.level = rows[k].pattern.level => rows[j].count <= rows[k].count
Reverse(xs) == [i \in 1..Len(xs) |-> xs[Len(xs) + 1 - i]]

Reported == report_out # <<>> /\ ~report_out[1].raised
TheReport == report_out[1].report[1]
\* Some service or some alert of the report is of this level.
HasLevel(report, level) ==
    \/ \E i \in 1..Len(report.services) : alert_level(report.services[i]) = level
    \/ \E i \in 1..Len(report.alerts) : report.alerts[i].level = level

\* C8: the health of a report is "unknown" when it has neither services nor
\* alerts; otherwise "critical" if a service or an alert is CRITICAL, else
\* "degraded" if one is ERROR, else "warning" if one is WARNING, else
\* "healthy".  So one CRITICAL alert makes it "critical" whatever else the
\* report holds.
C8_HealthIsWorstSeverityPresent ==
    Reported =>
        /\ TheReport.overall_health =
              IF TheReport.services = <<>> /\ TheReport.alerts = <<>> THEN "unknown"
              ELSE IF HasLevel(TheReport, "critical") THEN "critical"
              ELSE IF HasLevel(TheReport, "error") THEN "degraded"
              ELSE IF HasLevel(TheReport, "warning") THEN "warning"
              ELSE "healthy"
        /\ (\E i \in 1..Len(TheReport.alerts) : TheReport.alerts[i].level = "critical")
              => TheReport.overall_health = "critical"
\* A report was constructed whose only CRITICAL item is one alert, next to
\* two alerts of lower levels and a service that is not CRITICAL.
C8_Witness ==
    /\ Reported
    /\ report_call.op = "DiagnosticReport"
    /\ Cardinality({i \in 1..Len(TheReport.alerts) : TheReport.alerts[i].level = "critical"}) = 1
    /\ Len(TheReport.alerts) = 3
    /\ TheReport.services # <<>>
    /\ \A i \in 1..Len(TheReport.services) : alert_level(TheReport.services[i]) # "critical"
    /\ TheReport.overall_health = "critical"

\* C9: a report handed back by create_report or by diagnose holds the alerts
\* generated for its services, followed by the security alerts when diagnose
\* ran the security checks, and its overall_health is the health derived
\* from exactly these services and alerts: none of its alerts came after the
\* last computation of the health.
C9_HealthFollowsEveryAddedAlert ==
    Reported /\ report_call.op \in {"create_report", "diagnose"} =>
        /\ TheReport.services = report_call.services
        /\ TheReport.alerts = generate_alerts(report_call.services)
                                \o security_alerts(report_call.issues)
        /\ TheReport.overall_health
              = _calculate_overall_health(TheReport.services, TheReport.alerts)
\* diagnose appended security alerts that made the health worse than the
\* health create_report had computed.
C9_Witness ==
    /\ Reported
    /\ report_call.op = "diagnose"
    /\ report_call.include_security
    /\ report_call.issues # <<>>
    /\ report_call.services # <<>>
    /\ TheReport.overall_health = "critical"
    /\ create_report(TheReport.server, report_call.services).overall_health
          \in {"healthy", "warning", "degraded"}

(***************************************************************************)
(* Claims about the security sub-checks (SpecSecurity).                    *)
(***************************************************************************)
\* The sub-check ran commands and every one of them failed.
CommandsFailed ==
    /\ sec_out # <<>>
    /\ sec_out[1].ran # <<>>
    /\ \A i \in 1..Len(sec_out[1].ran) : ~sec_out[1].ran[i].success

\* C10: when the command a sub-check depends on fails (success is false,
\* a local policy rejection included), the sub-check returns no finding and
\* does not raise.
C10_FailedCommandGivesNoFinding ==
    CommandsFailed => ~sec_out[1].raised /\ sec_out[1].issues = <<>>

(***************************************************************************)
(* Claims about the security audit (SpecAudit).                            *)
(***************************************************************************)
\* The results of the firewall-status command among the commands run.
UfwRuns(ran) == Cardinality({i \in 1..Len(ran) : ran[i].command = UFW_COMMAND})

\* C11: a failing sub-check never aborts the run: check_all completes and
\* hands back the findings of its other sub-checks.
C11_FailingSubCheckDoesNotAbort ==
    audit_out # <<>> => ~audit_out[1].raised

\* C12: the memoized firewall status never outlives one check_all: every
\* check_all that completes has run the firewall-status command itself,
\* exactly once.
C12_FirewallStatusFreshInEachAudit ==
    audit_out # <<>> /\ ~audit_out[1].raised => UfwRuns(audit_out[1].ran) = 1

(***************************************************************************)
(* Claims about mcp_handlers (SpecHandlers).                               *)
(***************************************************************************)
ToolCalled(name) == tool_out # <<>> /\ tool_out[1].name = name

\* C13: handle_tool never raises: an unknown name gives an "Unknown tool"
\* text and no handler runs; an exception of a handler, a failure to build
\* the agent included, is returned as a text that contains its message.
C13_HandleToolNeverRaises ==
    tool_out # <<>> =>
        /\ ~tool_out[1].raised
        /\ tool_out[1].name \notin HANDLERS =>
              ~tool_out[1].handler_ran /\ contains(tool_out[1].result, <<"U","n","k","n","o","w","n"," ","t","o","o","l">>)
        /\ tool_out[1].handler_raised # <<>> =>
              contains(tool_out[1].result, tool_out[1].handler_raised[1].msg)
C13_Witness ==
    /\ ToolCalled("server_diagnose")
    /\ tool_out[1].handler_raised # <<>>
    /\ tool_out[1].handler_raised[1].type = "ValueError"
    /\ tool_out[1].agent = <<>>
    /\ ~tool_out[1].raised
    /\ contains(tool_out[1].result, <<"S","E","R","V","E","R","_","H","O","S","T"," ","e","n","v","i","r","o","n","m","e","n","t"," ","v","a","r","i","a","b","l","e"," ","i","s"," ","r","e","q","u","i","r","e","d">>)

\* The get_agent calls of the trace, and whether a reset lies between two.
IsGet(i) == trace[i] # <<>>
NoResetBetween(i, j) == \A k \in i..j : trace[k] # <<>>
\* The get_agent calls that followed a reset, or nothing.
FirstGets == {i \in DOMAIN trace : IsGet(i) /\ (i = 1 \/ ~IsGet(i - 1))}

C17_ServicesArePerCallOverride ==
    /\ \A i \in DOMAIN agents : agents[i].server_config.services = configured[i]
    /\ ToolCalled("server_diagnose") /\ tool_out[1].diagnosed # <<>>
          /\ tool_out[1].arguments.services \notin {<<>>, << <<>> >>} =>
             tool_out[1].diagnosed[1].services_override = tool_out[1].arguments.services

(***************************************************************************)
(* Claims about the server's reloads (SpecReload).                         *)
(***************************************************************************)
\* The configuration a tool call works with: that of the agent get_agent
\* gave it, as it was then, with the services the call itself asked for.
OwnConfig(k) ==
    [k.began[1] EXCEPT !.services = target_services(k.arguments.services, k.began[1])]

\* C14: whatever requests and reloads the server takes beside a
\* server_diagnose call, the call reads one whole configuration from start
\* to finish: that of the agent it got (the old one, if a reload came
\* since), with its own services; no other request changes it under the call.
C14_RunSeesOneWholeConfiguration ==
    \A t \in DOMAIN tasks :
        tasks[t].agent # <<>> =>
            /\ tasks[t].target_services # <<>> =>
                  tasks[t].target_services[1] = OwnConfig(tasks[t]).services
            /\ tasks[t].collected # <<>> =>
                  tasks[t].collected[1] = transport_reads(OwnConfig(tasks[t]))
            /\ tasks[t].server # <<>> => tasks[t].server[1] = OwnConfig(tasks[t]).host
            /\ tasks[t].pc \in Running \ {"got"} =>
                  agents[tasks[t].agent[1]].server_config = OwnConfig(tasks[t])
C14_Witness ==
    /\ Len(tasks) = 2
    /\ tasks[1].pc = "done" /\ tasks[2].pc = "done"
    /\ tasks[1].server # <<>> /\ tasks[2].server # <<>>
    /\ tasks[2].arrived = 0 /\ tasks[2].started = <<1>>
    /\ tasks[1].started = <<0>>
    /\ tasks[1].agent # tasks[2].agent
    /\ tasks[1].server # tasks[2].server
    /\ tasks[1].arguments.services # <<>>

(***************************************************************************)
(* Claims about the parsing of logs (SpecParse).                           *)
(***************************************************************************)
Parsed == log_out # <<>> /\ log_out[1].op = "_parse_logs"
\* The lines of the text that hold a character other than white space.
NonBlank(line) == \E i \in 1..Len(line) : line[i] \notin SpaceCh
NonBlankLines(text) == SelectSeq(split_lines(text), NonBlank)

\* C18: _parse_logs gives one LogEntry for each line that is not blank and
\* none for a blank line, in the order of the lines, and the raw of each
\* entry is the line as it was, compose prefix, timestamp and level included.
C18_OneEntryPerNonBlankLine ==
    Parsed =>
        /\ Len(fetched) = Len(NonBlankLines(log_call.result.stdout))
        /\ \A i \in 1..Len(fetched) :
              /\ fetched[i].raw = NonBlankLines(log_call.result.stdout)[i]
              /\ fetched[i].service = log_call.service
C18_Witness ==
    /\ Parsed
    /\ Len(fetched) = 2
    /\ Len(split_lines(log_call.result.stdout)) = 3
    /\ fetched[1].raw = <<" ","[","i","n","f","o","]"," ","u","p"," ">>
    /\ fetched[2].raw = <<"n","8","n","-","1"," "," ","|"," ","2","0","2","4","-","0","1","-","1","5"," ","1","0",":","3","0",":","4","5"," ","W","A","R","N","I","N","G",":"," ","s","l","o","w"," ","q","u","e","r","y">>
    /\ fetched[2].message = <<"I","N","G",":"," ","s","l","o","w"," ","q","u","e","r","y">>

\* C19: the message of a LogEntry is never empty when its line had content:
\* when taking off the timestamp and the level leaves nothing, the message
\* is the line itself.
C19_MessageNeverEmpty ==
    Parsed => \A i \in 1..Len(fetched) : fetched[i].message # <<>>

(***************************************************************************)
(* Claims about the alerts for a service's logs (SpecReport).              *)
(***************************************************************************)
\* The errors counted for an observed service: every error entry of its
\* logs, scanner requests left out.
CountedErrors(obs) == _filter_error_logs(get_logs(obs.name, obs.logs).entries)
CatchAllAlerts(report, name) ==
    {i \in 1..Len(report.alerts) :
        report.alerts[i] = Alert(WARNING, name, <<"M","u","l","t","i","p","l","e"," ","u","n","c","l","a","s","s","i","f","i","e","d"," ","e","r","r","o","r","s"," ","i","n"," ">> \o name)}

\* C20: for a service with errors, the report has the catch-all WARNING
\* "Multiple unclassified errors" alert, once, if and only if error_count
\* exceeds the number of pattern matches among the errors counted by at
\* least error_threshold.
C20_CatchAllIffUnmatchedReachThreshold ==
    report_out # <<>> /\ ~report_out[1].raised /\ Len(report_call.observed) = 1 =>
        LET errors == CountedErrors(report_call.observed[1])
            name == report_call.observed[1].name
        IN errors # <<>> =>
              Cardinality(CatchAllAlerts(report_out[1].report[1], name))
                 = IF Len(errors) - analyze_logs(errors).errors_found >= error_threshold
                   THEN 1 ELSE 0

(***************************************************************************)
(* Claims about pattern scopes, the order of an audit and the executor's   *)
(* single start.                                                           *)
(***************************************************************************)
AnalyzedEntry == log_out # <<>> /\ log_out[1].op = "analyze_entry"
TextMatches(k, entry) == re_search(re_compile[k], entry.raw, TRUE)
InScope(k, entry) == InSeq(entry.service, PATTERNS[k].services)

\* C21: analyze_entry never returns a pattern that has a service scope for an
\* entry whose service is outside that scope; for an entry that is not noise
\* it returns every unscoped pattern whose expression the line matches, and
\* every scoped one the line matches when the service is in its scope, each
\* once and in catalog order, so that one entry can carry several patterns.
C21_ScopedPatternsOnlyInScope ==
    AnalyzedEntry =>
        /\ \A j \in 1..Len(log_out[1].value) :
              \/ log_out[1].value[j].services = <<>>
              \/ InSeq(fetched[1].service, log_out[1].value[j].services)
        /\ \A j \in 1..Len(log_out[1].value) : \E k \in 1..Len(PATTERNS) :
              log_out[1].value[j] = PATTERNS[k] /\ TextMatches(k, fetched[1])
        /\ \A i, j \in 1..Len(log_out[1].value) : i # j => log_out[1].value[i] # log_out[1].value[j]
        /\ ~IsNoise(fetched[1]) =>
              \A k \in 1..Len(PATTERNS) :
                  (TextMatches(k, fetched[1]) /\ (PATTERNS[k].services = <<>> \/ InScope(k, fetched[1])))
                      => \E j \in 1..Len(log_out[1].value) : log_out[1].value[j] = PATTERNS[k]
\* A postgres entry whose line matches the connection-refused pattern, which
\* is scoped to n8n: nothing is returned for it.
C21_Witness ==
    /\ AnalyzedEntry
    /\ fetched[1].service = <<"p","o","s","t","g","r","e","s">>
    /\ ~IsNoise(fetched[1])
    /\ \E k \in 1..Len(PATTERNS) :
          /\ PATTERNS[k].services # <<>>
          /\ TextMatches(k, fetched[1])
          /\ ~InScope(k, fetched[1])
    /\ log_out[1].value = <<>>

\* The number of times a finding occurs in a list of findings.
Occurrences(x, issues) == Cardinality({i \in 1..Len(issues) : issues[i] = x})
Audited == audit_out # <<>> /\ ~audit_out[1].raised

\* C22: the list check_all returns is ordered by severity, CRITICAL before
\* ERROR before WARNING before INFO, and holds each finding of the sub-checks
\* as many times as they reported it: nothing dropped, nothing doubled.
C22_SortedPermutationOfFindings ==
    Audited =>
        /\ \A i, j \in 1..Len(audit_out[1].issues) :
              i < j => level_order(audit_out[1].issues[i].level) <= level_order(audit_out[1].issues[j].level)
        /\ Len(audit_out[1].issues) = Len(audit_out[1].found)
        /\ \A i \in 1..Len(audit_out[1].found) :
              Occurrences(audit_out[1].found[i], audit_out[1].issues)
                  = Occurrences(audit_out[1].found[i], audit_out[1].found)
\* An audit whose sub-checks reported a less severe finding before a CRITICAL
\* one: the list returned is in another order than they were found.
C22_Witness ==
    /\ Audited
    /\ Len(audit_out[1].found) >= 3
    /\ audit_out[1].issues # audit_out[1].found
    /\ audit_out[1].issues[1].level = CRITICAL
    /\ audit_out[1].found[1].level # CRITICAL

\* What the process of the call did is a failure: an exception of
\* subprocess.run (a timeout, a missing binary, any other) or an exit code
\* other than zero.
ProcessFailed == proc # <<>> /\ (proc[1].kind # "exit" \/ proc[1].rc # 0)

\* C23: one call of execute hands at most one argument vector to
\* subprocess.run; when the process times out, cannot be started or exits
\* with a code other than zero, the failure is returned and the command was
\* started that once only.
C23_StartsCommandAtMostOnce ==
    /\ Len(spawned) <= 1
    /\ ProcessFailed =>
          /\ returned # <<>> /\ ~returned[1].success
          /\ returned[1].command = call.command
          /\ Len(spawned) = 1
\* A call that timed out and came back failed, the command started once.
C23_Witness ==
    /\ proc # <<>> /\ proc[1].kind = "TimeoutExpired"
    /\ returned # <<>> /\ ~returned[1].success
    /\ Len(spawned) = 1

\* handle_server_diagnose answered, and the answer is its all-healthy message.
Answered == report_out # <<>> /\ report_call.op = "server_diagnose" /\ ~report_out[1].raised
SaysAllHealthy(answer) == contains(answer, <<"A","l","l"," ","s","e","r","v","i","c","e","s"," ","h","e","a","l","t","h","y"," ","o","n"," ">>) /\ contains(answer, <<"n","o"," ","i","s","s","u","e","s"," ","f","o","u","n","d",".">>)

HasMarker(text) == \E i \in 0..Len(text) : LitAt(<<"=","=","="," ","D","E","P","L","O","Y"," ","C","O","M","P","L","E","T","E"," ","=","=","=">>, text, i, FALSE)
HasErrorText(text) ==
    \E i \in 0..Len(text) : LitAt(<<"f","a","t","a","l",":">>, text, i, TRUE) \/ LitAt(<<"e","r","r","o","r",":">>, text, i, TRUE)
Polled == polls # <<>>
LastPoll == polls[Len(polls)]

\* C24: the status of a poll follows a fixed priority: COMPLETED when the log
\* it read holds the completion marker, whatever the process check printed
\* and whatever error text the log holds; else FAILED when the log holds
\* "fatal:" or "error:" in any letter case; else RUNNING when the process
\* check found the process running.
C24_StatusByFixedPriority ==
    Polled =>
        IF HasMarker(LastPoll.status.log_content) THEN LastPoll.status.status = <<"C","O","M","P","L","E","T","E","D">>
        ELSE IF HasErrorText(LastPoll.status.log_content) THEN LastPoll.status.status = <<"F","A","I","L","E","D">>
        ELSE LastPoll.checked = <<"R","U","N","N","I","N","G">> => LastPoll.status.status = <<"R","U","N","N","I","N","G">>
\* A poll of a deploy whose process still runs and whose log holds an error
\* line in capitals before the completion marker: COMPLETED.
C24_Witness ==
    /\ Polled
    /\ LastPoll.checked = <<"R","U","N","N","I","N","G">>
    /\ HasMarker(LastPoll.status.log_content)
    /\ HasErrorText(LastPoll.status.log_content)
    /\ ~contains(LastPoll.status.log_content, <<"e","r","r","o","r",":">>)
    /\ LastPoll.status.status = <<"C","O","M","P","L","E","T","E","D">>

\* A path or a list of services that start_background_deploy is to reject.
PathChars == AlnumCh \cup {".", "_", "~", "/", "-"}
InvalidStart(d) ==
    \/ \E i \in 1..Len(d.project_path) : d.project_path[i] \notin PathChars
    \/ \E i \in 1..(Len(d.project_path) - 1) : d.project_path[i] = "." /\ d.project_path[i + 1] = "."
    \/ \E i \in 1..Len(d.services) : ~validate_service_name(d.services[i]).valid

\* C25: a start with a project path that holds a character outside
\* [a-zA-Z0-9._~/-] or holds "..", or with an invalid service name, comes
\* back with success=false and an error message, and hands no command to the
\* transport.
C25_InvalidStartRunsNothing ==
    \A i \in 1..Len(deploys) :
        InvalidStart(deploys[i]) =>
            /\ ~deploys[i].result.success
            /\ deploys[i].result.error # <<>>
            /\ deploys[i].executed = <<>>

\* C26: process_running is true only when the process check found the
\* process: when it printed NOT_RUNNING, process_running is false, and a log
\* with text but without marker and error text gives "FAILED (process died)".
C26_NotRunningIsNotRunning ==
    (Polled /\ LastPoll.checked = <<"N","O","T","_","R","U","N","N","I","N","G">>) =>
        /\ ~LastPoll.status.process_running
        /\ (/\ strip(LastPoll.status.log_content) # <<>>
            /\ ~HasMarker(LastPoll.status.log_content)
            /\ ~HasErrorText(LastPoll.status.log_content))
              => LastPoll.status.status = <<"F","A","I","L","E","D"," ","(","p","r","o","c","e","s","s"," ","d","i","e","d",")">>

\* Two polls of one deploy, one after the other.
PolledTwice == Len(polls) = 2 /\ polls[1].deploy_id = polls[2].deploy_id
Terminal == { <<"C","O","M","P","L","E","T","E","D">>, <<"F","A","I","L","E","D">> }

C28_DeployIdsAreUnique ==
    \A i, j \in 1..Len(deploys) :
        (i < j /\ deploys[i].result.success /\ deploys[j].result.success) =>
            /\ deploys[i].result.deploy_id # deploys[j].result.deploy_id
            /\ deploys[i].result.log_file # deploys[j].result.log_file

\* The step a command of handle_server_deploy belongs to: 1 pull, 2 build,
\* 3 deploy, 4 status; 0 for any other command.
StepOf(cmd) ==
    IF contains(cmd, <<"g","i","t"," ","f","e","t","c","h">>) THEN 1
    ELSE IF contains(cmd, <<"d","o","c","k","e","r"," ","c","o","m","p","o","s","e"," ","b","u","i","l","d">>) THEN 2
    ELSE IF contains(cmd, <<"d","o","c","k","e","r"," ","c","o","m","p","o","s","e"," ","u","p">>) THEN 3
    ELSE IF contains(cmd, <<"d","o","c","k","e","r"," ","c","o","m","p","o","s","e"," ","p","s">>) THEN 4
    ELSE 0
Deployed == deploy_out # <<>>
StepsRun == [i \in 1..Len(deploy_out[1].executed) |-> StepOf(deploy_out[1].executed[i])]
StepRan(step) == \E i \in 1..Len(StepsRun) : StepsRun[i] = step
Succeeded(out) == out.kind = "exit" /\ out.rc = 0

\* C30: the commands handle_server_deploy executes are steps in the order
\* pull, build, deploy, status, each at most once and pull and build only
\* when enabled; nothing runs after a failed step: no build nor deploy
\* after a failed pull, no deploy after a failed build, and the status
\* command only after a deploy that succeeded.
C30_StepsInOrderUntilFirstFailure ==
    Deployed =>
        /\ \A i \in 1..Len(StepsRun) : StepsRun[i] \in 1..4
        /\ \A i, j \in 1..Len(StepsRun) : i < j => StepsRun[i] < StepsRun[j]
        /\ StepRan(1) => deploy_out[1].arguments.pull
        /\ StepRan(2) => deploy_out[1].arguments.build
        /\ (StepRan(1) /\ ~Succeeded(deploy_out[1].outs.pull)) => StepsRun = <<1>>
        /\ (StepRan(2) /\ ~Succeeded(deploy_out[1].outs.build)) => StepsRun[Len(StepsRun)] = 2
        /\ (StepRan(3) /\ ~Succeeded(deploy_out[1].outs.up)) => StepsRun[Len(StepsRun)] = 3
        /\ StepRan(4) => (StepRan(3) /\ Succeeded(deploy_out[1].outs.up))
\* A deploy whose pull succeeded and whose build failed: the two commands
\* ran and nothing after them.
C30_Witness ==
    /\ Deployed
    /\ StepsRun = <<1, 2>>
    /\ Succeeded(deploy_out[1].outs.pull)
    /\ ~Succeeded(deploy_out[1].outs.build)
    /\ Succeeded(deploy_out[1].outs.up)
====
